---------------------------- MODULE Spec2Model ----------------------------
(***************************************************************************)
(* A model of ci-webhook: the trigger-rule engine (package hook), the hook  *)
(* registry with its file watcher (package hook_manager), the signal loop   *)
(* (signals.go) and the request pipeline (package handler).                 *)
(*                                                                          *)
(* The module holds several specifications over one set of variables; each  *)
(* specification drives the variables of one subsystem and leaves the       *)
(* others at their idle values.                                             *)
(***************************************************************************)
EXTENDS Integers, Sequences, FiniteSets, TLC

VARIABLES
    \* ---- rule engine (SpecRules) ----
    rule,          \* the hook's TriggerRule under evaluation
    softFail,      \* hook.TriggerSignatureSoftFailures
    hookReq,       \* the hook.Request the rule is evaluated against
    ruleEval,      \* what TriggerRule.Evaluate returned (with its evaluation trace)
    trigger,       \* what evaluateHookRules returned
    rulePc,        \* "ready" before evaluateHookRules ran, "done" after
    \* ---- hook registry and file watcher (Spec, SpecGet) ----
    phase,         \* "init", "loaded", "running", "exited", "crashed"
    files,         \* Manager.files
    hooksInFiles,  \* Manager.hooksInFiles: path -> sequence of hooks
    disk,          \* the hooks files on disk
    watched,       \* the paths added to the fsnotify watcher
    last,          \* what the watcher task did with the last event it took
    lastGood,      \* per path, the sequence of its latest successful load or reload
    \* ---- request handlers looking hooks up (SpecGet) ----
    reader,        \* per request handler, its position inside Manager.Get
    mapRace,       \* a write of hooksInFiles happened while a Get was iterating it
    \* ---- signal loop and reload notifications (SpecSignals) ----
    signals,       \* the os.Signal channel of setupSignals (capacity 1)
    sigLoop,       \* position of the signal goroutine
    notifyChan,    \* Manager.notifyChan (capacity 5): number of queued requests
    sent,          \* signals delivered to the process so far
    \* ---- request pipeline (SpecPipeline) ----
    opts,          \* RequestHandler.opts: the daemon-wide handler options
    response,      \* the last request and what its handler wrote
    runs,          \* how often the last request started the hook's command
    \* ---- one invocation of the executor (SpecExecutor) ----
    exec,          \* the invocation: hook timeout, file arguments, response mode, the command's ways
    runPc,         \* position of the goroutine inside Executor.execHookCommand
    tmp,           \* per file argument, its temporary file and whether files[i].File holds it
    proc,          \* the command's process
    termTimer,     \* the time.AfterFunc timer of stopProcessWithTimeout
    killTimer,     \* the 10-second timer set inside its callback
    cbPc,          \* position of the termination timer's callback
    kills,         \* the signals sent to the process group, in order
    ticks,         \* seconds since the timer was set and since SIGTERM
    responded,     \* the HTTP response of the request has been written
    \* ---- parameter resolution (SpecParameter, SpecMatch, SpecJSON) ----
    params,        \* the value walked: a payload tree, or a request with its three maps
    pin,           \* the input: a path, a match rule, or the jsonStringParameters
    pout,          \* what the call returned
    ppc            \* "ready" before the call, "done" after it

ruleVars == <<rule, softFail, hookReq, ruleEval, trigger, rulePc>>
registryVars == <<phase, files, hooksInFiles, disk, watched, last, lastGood>>
readerVars == <<reader, mapRace>>
signalVars == <<signals, sigLoop, notifyChan, sent>>
pipelineVars == <<opts, response, runs>>
execVars == <<exec, runPc, tmp, proc, termTimer, killTimer, cbPc, kills, ticks, responded>>
paramVars == <<params, pin, pout, ppc>>
vars == <<ruleVars, registryVars, readerVars, signalVars, pipelineVars, execVars, paramVars>>

-----------------------------------------------------------------------------
(***************************************************************************)
(* Errors.  Only the class of an error matters to the code that handles     *)
(* it: IsParameterNodeError (errors.As, so it sees through ArgumentError    *)
(* and fmt.Errorf("%w")), IsSignatureError (a type switch), anything else.  *)
(***************************************************************************)
ErrNil == "nil"
ErrParameterNode == "ParameterNodeError"
ErrSignature == "SignatureError"
ErrSignatureEmpty == "SignatureError on empty payload"
ErrOutdated == "SignatureError outdated"
ErrOther == "error"

IsParameterNodeError(err) == err = ErrParameterNode

IsSignatureError(err) == err \in {ErrSignature, ErrSignatureEmpty, ErrOutdated}

-----------------------------------------------------------------------------
(***************************************************************************)
(* Requests and leaf predicates.                                            *)
(***************************************************************************)
Secret1 == "mysecret"
Secret2 == "mysecretFAIL"
Body == "payload-bytes"
Master == "refs/heads/master"

\* hex(HMAC(hash, secret, body)): distinct hashes, secrets or bodies give
\* distinct digests, and a digest holds neither a comma nor a "=".
Digest(hash, secret, body) == hash \o "(" \o secret \o "/" \o body \o ")"

HMAC(secret, body) == Digest("hmac-sha1", secret, body)
HMAC256(secret, body) == Digest("hmac-sha256", secret, body)
HMAC512(secret, body) == Digest("hmac-sha512", secret, body)

\* hook.Request: Headers and Payload map the names present to their values.
\* The X-Hub-Signature header holds one signature without its "sha1="
\* prefix, which ExtractSignatures accepts as it is.
Requests ==
    { [Headers |-> h, Payload |-> p, Body |-> Body, AllowSignatureErrors |-> FALSE] :
        h \in { <<>>, [n \in {"X-Hub-Signature"} |-> HMAC(Secret1, Body)] },
        p \in { <<>>, [n \in {"ref"} |-> Master] } }

(***************************************************************************)
(* Parameter resolution.  A payload value is a string, null, a mapping or  *)
(* a sequence.  A dotted path is the sequence of its segments, and so is   *)
(* the key of a mapping: the key "a.b" is <<"a", "b">>, and a path is a    *)
(* literal key of a mapping when the two sequences are equal.              *)
(***************************************************************************)
Str(v) == [t |-> "str", v |-> v]
Null == [t |-> "null"]
MapOf(m) == [t |-> "map", m |-> m]
SeqOf(s) == [t |-> "seq", s |-> s]

ErrPanic == "panic"

\* The largest uint64, as a path segment.
MaxUint64 == "18446744073709551615"

\* strconv.ParseUint(segment, 10, 64) followed by int(index): the value as
\* an int, and whether the uint64 is beyond the int range (int(index) is
\* then negative: -1 for the largest uint64).
ParseUint(seg) ==
    CASE seg = "0" -> [err |-> FALSE, int |-> 0, wraps |-> FALSE]
      [] seg = "1" -> [err |-> FALSE, int |-> 1, wraps |-> FALSE]
      [] seg = MaxUint64 -> [err |-> FALSE, int |-> -1, wraps |-> TRUE]
      [] OTHER -> [err |-> TRUE, int |-> 0, wraps |-> FALSE]

Found(v) == [val |-> v, err |-> ErrNil]
Failed(err) == [val |-> Null, err |-> err]

\* params.([]interface{})[index] with the uint64 index: an index beyond
\* the slice is a run-time panic.
IndexSlice(s, idx) == IF idx.wraps \/ idx.int >= Len(s) THEN <<>> ELSE <<s[idx.int + 1]>>

\* GetParameter
RECURSIVE GetParameter(_, _)
GetParameter(s, p) ==
    CASE p.t = "null" -> Failed(ErrOther)
      [] p.t = "seq" ->
            IF Len(p.s) > 0
            THEN LET idx == ParseUint(Head(s))
                     at == IndexSlice(p.s, idx)
                 IN IF idx.err \/ Len(p.s) <= idx.int THEN Failed(ErrParameterNode)
                    ELSE IF at = <<>> THEN Failed(ErrPanic)
                    ELSE IF Len(s) > 1 THEN GetParameter(Tail(s), at[1])
                    ELSE Found(at[1])
            ELSE Failed(ErrParameterNode)
      [] p.t = "map" ->
            IF s \in DOMAIN p.m THEN Found(p.m[s])
            ELSE IF <<Head(s)>> \in DOMAIN p.m
            THEN IF Len(s) > 1 THEN GetParameter(Tail(s), p.m[<<Head(s)>>])
                 ELSE Found(p.m[<<Head(s)>>])
            ELSE Failed(ErrParameterNode)
      [] OTHER -> Failed(ErrParameterNode)

\* The keys of the modelled mappings, in the order json.Marshal writes them.
KeyA == <<"a">>
KeyAB == <<"a", "b">>
KeySig == <<"X-Sig">>
KeyOrder == <<KeySig, KeyA, KeyAB, <<"b">>, <<"branch">>, <<"commits">>>>

\* A dotted name as the string it is.
RECURSIVE JoinDots(_)
JoinDots(s) ==
    IF Len(s) = 1 THEN s[1] ELSE s[1] \o "." \o JoinDots(Tail(s))

\* json.Marshal
RECURSIVE Marshal(_)
RECURSIVE MarshalSeq(_)
RECURSIVE MarshalMap(_, _)
MarshalSeq(s) ==
    IF s = <<>> THEN ""
    ELSE Marshal(Head(s)) \o (IF Len(s) > 1 THEN "," ELSE "") \o MarshalSeq(Tail(s))

MarshalMap(m, keys) ==
    IF keys = <<>> THEN ""
    ELSE "\"" \o JoinDots(Head(keys)) \o "\":" \o Marshal(m[Head(keys)])
            \o (IF Len(keys) > 1 THEN "," ELSE "") \o MarshalMap(m, Tail(keys))

Marshal(v) ==
    CASE v.t = "str" -> "\"" \o v.v \o "\""
      [] v.t = "null" -> "null"
      [] v.t = "seq" -> "[" \o MarshalSeq(v.s) \o "]"
      [] OTHER -> "{" \o MarshalMap(v.m, SelectSeq(KeyOrder, LAMBDA k : k \in DOMAIN v.m)) \o "}"

\* ExtractParameterAsString: mappings and sequences are rendered as JSON,
\* everything else with %v; the error of GetParameter is wrapped with %w.
ExtractParameterAsString(s, p) ==
    LET render(g) ==
            IF g.err # ErrNil THEN [val |-> "", err |-> g.err]
            ELSE [val |-> CASE g.val.t = "str" -> g.val.v
                            [] g.val.t = "null" -> "<nil>"
                            [] OTHER -> Marshal(g.val),
                  err |-> ErrNil]
    IN render(GetParameter(s, p))

\* textproto.CanonicalMIMEHeaderKey on the header names used.
CanonicalMIMEHeaderKey(name) == IF name = <<"x-sig">> THEN KeySig ELSE name

Arg(source, name) == [Source |-> source, Name |-> name]

\* Argument.get on a request that holds its headers, query and payload as
\* mappings of values; the name is a dotted path.
ArgumentGetIn(arg, req) ==
    CASE arg.Source = "header" ->
            ExtractParameterAsString(CanonicalMIMEHeaderKey(arg.Name), req.Headers)
      [] arg.Source \in {"url", "query"} -> ExtractParameterAsString(arg.Name, req.Query)
      [] arg.Source = "payload" -> ExtractParameterAsString(arg.Name, req.Payload)
      [] arg.Source = "string" -> [val |-> JoinDots(arg.Name), err |-> ErrNil]
      [] arg.Source = "raw-request-body" -> [val |-> req.Body, err |-> ErrNil]
      [] arg.Source = "request" ->
            IF arg.Name = <<"remote-addr">> THEN [val |-> req.RemoteAddr, err |-> ErrNil]
            ELSE IF arg.Name = <<"method">> THEN [val |-> req.Method, err |-> ErrNil]
            ELSE [val |-> "", err |-> ErrOther]
      [] arg.Source = "entire-payload" -> [val |-> Marshal(req.Payload), err |-> ErrNil]
      [] arg.Source = "entire-headers" -> [val |-> Marshal(req.Headers), err |-> ErrNil]
      [] arg.Source = "entire-query" -> [val |-> Marshal(req.Query), err |-> ErrNil]
      [] OTHER -> [val |-> "", err |-> ErrOther]

\* Argument.Get.  The requests of the rule engine's checks hold flat maps
\* from a name to its string; a request with a Query holds mappings of
\* values and is resolved by GetParameter.
ArgumentGet(arg, req) ==
    IF "Query" \in DOMAIN req THEN ArgumentGetIn(arg, req) ELSE
    CASE arg.Source = "header" ->
            IF arg.Name \in DOMAIN req.Headers
            THEN [val |-> req.Headers[arg.Name], err |-> ErrNil]
            ELSE [val |-> "", err |-> ErrParameterNode]
      [] arg.Source = "payload" ->
            IF arg.Name \in DOMAIN req.Payload
            THEN [val |-> req.Payload[arg.Name], err |-> ErrNil]
            ELSE [val |-> "", err |-> ErrParameterNode]
      [] arg.Source = "string" -> [val |-> arg.Name, err |-> ErrNil]
      [] arg.Source = "raw-request-body" -> [val |-> req.Body, err |-> ErrNil]
      [] OTHER -> [val |-> "", err |-> ErrOther]

\* strings.HasPrefix, strings.TrimPrefix, strings.Contains for a one-byte
\* substring, strings.Split on a one-byte separator.
HasPrefix(s, prefix) ==
    Len(s) >= Len(prefix) /\ SubSeq(s, 1, Len(prefix)) = prefix

TrimPrefix(s, prefix) ==
    IF HasPrefix(s, prefix) THEN SubSeq(s, Len(prefix) + 1, Len(s)) ELSE s

Contains(s, c) == \E i \in 1..Len(s) : SubSeq(s, i, i) = c

RECURSIVE Split(_, _)
Split(s, sep) ==
    IF Contains(s, sep)
    THEN LET i == CHOOSE j \in 1..Len(s) :
                      /\ SubSeq(s, j, j) = sep
                      /\ \A k \in 1..(j - 1) : SubSeq(s, k, k) # sep
         IN <<SubSeq(s, 1, i - 1)>> \o Split(SubSeq(s, i + 1, Len(s)), sep)
    ELSE <<s>>

\* ExtractCommaSeparatedValues
RECURSIVE KeepPrefixed(_, _)
KeepPrefixed(parts, prefix) ==
    IF parts = <<>> THEN <<>>
    ELSE (IF HasPrefix(Head(parts), prefix)
          THEN <<TrimPrefix(Head(parts), prefix)>> ELSE <<>>)
            \o KeepPrefixed(Tail(parts), prefix)

ExtractCommaSeparatedValues(source, prefix) == KeepPrefixed(Split(source, ","), prefix)

\* ExtractSignatures keeping the parts that lack the prefix.
ExtractSignatures_KeepsAll(source, prefix) ==
    IF Contains(source, ",") THEN Split(source, ",")
    ELSE <<TrimPrefix(source, prefix)>>

\* ExtractSignatures
ExtractSignatures(source, prefix) ==
    IF Contains(source, ",") THEN ExtractCommaSeparatedValues(source, prefix)
    ELSE <<TrimPrefix(source, prefix)>>

\* ValidateMAC with the emptyPayload flag never set.
ValidateMAC_NeverEmpty(payload, actualMAC, signatures) ==
    IF \E i \in DOMAIN signatures : signatures[i] = actualMAC THEN ErrNil
    ELSE ErrSignature

\* ValidateMAC, given hex(mac.Sum) of the payload: a mismatch is a
\* SignatureError, its emptyPayload set for a payload of length 0.
ValidateMAC(payload, actualMAC, signatures) ==
    IF \E i \in DOMAIN signatures : signatures[i] = actualMAC THEN ErrNil
    ELSE IF Len(payload) = 0 THEN ErrSignatureEmpty
    ELSE ErrSignature

\* CheckPayloadSignature, CheckPayloadSignature256, CheckPayloadSignature512:
\* the empty secret is a plain error.
CheckPayloadSignature(payload, secret, signature) ==
    IF secret = "" THEN ErrOther
    ELSE ValidateMAC(payload, HMAC(secret, payload), ExtractSignatures(signature, "sha1="))

CheckPayloadSignature256(payload, secret, signature) ==
    IF secret = "" THEN ErrOther
    ELSE ValidateMAC(payload, HMAC256(secret, payload), ExtractSignatures(signature, "sha256="))

CheckPayloadSignature512(payload, secret, signature) ==
    IF secret = "" THEN ErrOther
    ELSE ValidateMAC(payload, HMAC512(secret, payload), ExtractSignatures(signature, "sha512="))

MatchValue == "value"
MatchRegex == "regex"
MatchHMACSHA1 == "payload-hmac-sha1"
MatchHMACSHA256 == "payload-hmac-sha256"
MatchHMACSHA512 == "payload-hmac-sha512"
MatchHashSHA1 == "payload-hash-sha1"
MatchHashSHA256 == "payload-hash-sha256"
MatchHashSHA512 == "payload-hash-sha512"
IPWhitelist == "ip-whitelist"
ScalrSignature == "scalr-signature"

\* The predicates that check a signature of the body, all alike but for
\* the digest.
SignatureTypes ==
    {MatchHMACSHA1, MatchHMACSHA256, MatchHMACSHA512,
     MatchHashSHA1, MatchHashSHA256, MatchHashSHA512}

Match(type, secret, value, parameter) ==
    [Type |-> type, Secret |-> secret, Value |-> value, Parameter |-> parameter]

MatchRegexOf(regex, parameter) ==
    [Type |-> MatchRegex, Secret |-> "", Value |-> "", Parameter |-> parameter,
     Regex |-> regex]

NoMatch == Match("", "", "", Arg("", ""))

\* regexp.MatchString for the patterns used: "[" does not compile, ".*"
\* matches everything, any other pattern matches the string equal to it.
RegexpMatchString(pattern, s) ==
    IF pattern = "[" THEN [res |-> FALSE, err |-> ErrOther]
    ELSE [res |-> (pattern = ".*" \/ pattern = s), err |-> ErrNil]

(***************************************************************************)
(* CheckScalrSignature.  Times are in milliseconds.  A Date header is the   *)
(* text of a wall-clock reading (in seconds) and a zone abbreviation; the   *)
(* request carries the clock and the zone of the server that reads it.      *)
(***************************************************************************)
KeySignature == <<"X-Signature">>
KeyDate == <<"Date">>

\* The zones written in a Date header and the offset each one names ("EST"
\* is five hours behind UTC), in milliseconds.
Zones == {"UTC", "EST"}
ZoneOffset(zone) == IF zone = "EST" THEN 0 - 5 * 3600000 ELSE 0

\* The abbreviations that have a defined offset in a location.
Locations == {"UTC", "America/New_York"}
KnownIn(location) == IF location = "America/New_York" THEN {"EST"} ELSE {}

\* Time.Format("Mon 02 Jan 2006 15:04:05 MST")
DateText(wall, zone) == ToString(wall) \o " " \o zone

\* The wall-clock readings of the Date headers sent.
Walls == {36000}
MalformedDate == "2017-09-08T11:24:32Z"

\* time.Parse("Mon 02 Jan 2006 15:04:05 MST", value) in a location: "UTC"
\* is UTC everywhere, an abbreviation with a defined offset in the location
\* has that offset, and an unknown one is recorded with a zero offset.
TimeParse(value, location) ==
    IF \E w \in Walls, z \in Zones : DateText(w, z) = value
    THEN LET d == CHOOSE d \in Walls \X Zones : DateText(d[1], d[2]) = value
         IN [err |-> ErrNil,
             t |-> d[1] * 1000
                     - (IF d[2] \in KnownIn(location) THEN ZoneOffset(d[2]) ELSE 0)]
    ELSE [err |-> ErrOther, t |-> 0]

\* math.Abs
Abs(x) == IF x < 0 THEN 0 - x ELSE x

\* The largest age of a Date header, in milliseconds (`delta > 300`).
MaxDelta == 300000

\* CheckScalrSignature: the MAC is over the body followed by the Date
\* header's text.
CheckScalrSignature(r, signingKey, checkDate) ==
    IF r.Headers.t = "null" THEN [res |-> FALSE, err |-> ErrNil]
    ELSE IF KeySignature \notin DOMAIN r.Headers.m THEN [res |-> FALSE, err |-> ErrNil]
    ELSE IF KeyDate \notin DOMAIN r.Headers.m THEN [res |-> FALSE, err |-> ErrNil]
    ELSE IF signingKey = "" THEN [res |-> FALSE, err |-> ErrOther]
    ELSE LET providedSignature == r.Headers.m[KeySignature].v
             dateHeader == r.Headers.m[KeyDate].v
             dated(date) ==
                 IF date.err # ErrNil THEN [res |-> FALSE, err |-> date.err]
                 ELSE IF Abs(r.Now - date.t) > MaxDelta
                 THEN [res |-> FALSE, err |-> ErrOutdated]
                 ELSE [res |-> TRUE, err |-> ErrNil]
         IN IF providedSignature # HMAC(signingKey, r.Body \o dateHeader)
            THEN [res |-> FALSE, err |-> ErrSignature]
            ELSE IF ~checkDate THEN [res |-> TRUE, err |-> ErrNil]
            ELSE dated(TimeParse(dateHeader, r.Local))

(***************************************************************************)
(* CheckIPWhitelist.  An address is [bytes]: 4 bytes for IPv4, 16 for IPv6; *)
(* a network is an address and the length of its mask.                      *)
(***************************************************************************)
\* strings.Trim(s, cutset), cutset a set of one-byte strings
RECURSIVE Trim(_, _)
Trim(s, cutset) ==
    IF Len(s) = 0 THEN s
    ELSE IF SubSeq(s, 1, 1) \in cutset THEN Trim(SubSeq(s, 2, Len(s)), cutset)
    ELSE IF SubSeq(s, Len(s), Len(s)) \in cutset THEN Trim(SubSeq(s, 1, Len(s) - 1), cutset)
    ELSE s

\* strings.LastIndex(s, c) for a one-byte c, counted from 1; 0 when absent
LastIndex(s, c) ==
    IF Contains(s, c)
    THEN CHOOSE i \in 1..Len(s) :
            /\ SubSeq(s, i, i) = c
            /\ \A j \in (i + 1)..Len(s) : SubSeq(s, j, j) # c
    ELSE 0

\* strings.Fields: the maximal runs without white space
RECURSIVE Fields(_, _)
Fields(s, field) ==
    IF Len(s) = 0 THEN (IF field = "" THEN <<>> ELSE <<field>>)
    ELSE IF SubSeq(s, 1, 1) \in {" ", "\t"}
    THEN (IF field = "" THEN <<>> ELSE <<field>>) \o Fields(SubSeq(s, 2, Len(s)), "")
    ELSE Fields(SubSeq(s, 2, Len(s)), field \o SubSeq(s, 1, 1))

IPv4(a, b, c, d) == <<a, b, c, d>>
IPv6Loopback == [i \in 1..16 |-> IF i = 16 THEN 1 ELSE 0]

\* The addresses written in the requests and ranges, and their texts.
Addresses ==
    {IPv4(10, 0, 0, 0), IPv4(10, 0, 0, 1), IPv4(10, 0, 0, 2), IPv4(192, 168, 1, 1),
     IPv6Loopback}

RECURSIVE Dotted(_)
Dotted(bytes) ==
    IF Len(bytes) = 1 THEN ToString(bytes[1])
    ELSE ToString(bytes[1]) \o "." \o Dotted(Tail(bytes))

IPText(ip) == IF Len(ip) = 4 THEN Dotted(ip) ELSE "::1"

\* net.ParseIP: <<>> is nil
ParseIP(text) ==
    IF \E a \in Addresses : IPText(a) = text
    THEN <<CHOOSE a \in Addresses : IPText(a) = text>>
    ELSE <<>>

\* The mask lengths written in the ranges.
MaskLengths == {8, 31, 32, 33}

\* IP.Mask: the first n bits kept
MaskByte(byte, bits) ==
    IF bits >= 8 THEN byte
    ELSE IF bits <= 0 THEN 0
    ELSE (byte \div (2 ^ (8 - bits))) * (2 ^ (8 - bits))

ApplyMask(ip, n) == [k \in DOMAIN ip |-> MaskByte(ip[k], n - 8 * (k - 1))]

\* net.ParseCIDR: the network of "address/length"; <<>> with an error
ParseCIDR(text) ==
    IF \E a \in Addresses, n \in MaskLengths :
            /\ IPText(a) \o "/" \o ToString(n) = text
            /\ n <= 8 * Len(a)
    THEN LET c == CHOOSE c \in Addresses \X MaskLengths :
                        IPText(c[1]) \o "/" \o ToString(c[2]) = text
         IN <<[ip |-> ApplyMask(c[1], c[2]), ones |-> c[2]]>>
    ELSE <<>>

\* IPNet.Contains
NetContains(net, ip) ==
    /\ Len(ip) = Len(net.ip)
    /\ ApplyMask(ip, net.ones) = net.ip

\* CheckIPWhitelist, the loop over strings.Fields(ipRange)
RECURSIVE WhitelistLoop(_, _)
WhitelistLoop(ranges, parsedIP) ==
    IF ranges = <<>> THEN [res |-> FALSE, err |-> ErrNil]
    ELSE LET r == IF ~Contains(Head(ranges), "/") THEN Head(ranges) \o "/32"
                   ELSE Head(ranges)
             checked(cidr) ==
                 IF cidr = <<>> THEN [res |-> FALSE, err |-> ErrOther]
                 ELSE IF NetContains(cidr[1], parsedIP) THEN [res |-> TRUE, err |-> ErrNil]
                 ELSE WhitelistLoop(Tail(ranges), parsedIP)
         IN checked(ParseCIDR(r))

\* CheckIPWhitelist
CheckIPWhitelist(remoteAddr, ipRange) ==
    LET trimmed == Trim(remoteAddr, {" ", "[", "]"})
        i == LastIndex(trimmed, ":")
        ip == IF i # 0 THEN Trim(SubSeq(trimmed, 1, i - 1), {" ", "[", "]"}) ELSE trimmed
        looked(parsedIP) ==
            IF parsedIP = <<>> THEN [res |-> FALSE, err |-> ErrOther]
            ELSE WhitelistLoop(Fields(ipRange, ""), parsedIP[1])
    IN looked(ParseIP(ip))

\* `return err == nil, err`
Verdict(err) == [res |-> err = ErrNil, err |-> err]

\* MatchRule.Evaluate for the predicates that consume a parameter.
MatchRuleEvaluate(m, req) ==
    IF m.Type = IPWhitelist THEN CheckIPWhitelist(req.RemoteAddr, m.IPRange) ELSE
    IF m.Type = ScalrSignature THEN CheckScalrSignature(req, m.Secret, TRUE) ELSE
    LET on(arg) ==
            IF arg.err = ErrNil
            THEN CASE m.Type = MatchValue ->
                        [res |-> arg.val = m.Value, err |-> ErrNil]
                   [] m.Type = MatchRegex -> RegexpMatchString(m.Regex, arg.val)
                   [] m.Type \in {MatchHashSHA1, MatchHMACSHA1} ->
                        Verdict(CheckPayloadSignature(req.Body, m.Secret, arg.val))
                   [] m.Type \in {MatchHashSHA256, MatchHMACSHA256} ->
                        Verdict(CheckPayloadSignature256(req.Body, m.Secret, arg.val))
                   [] m.Type \in {MatchHashSHA512, MatchHMACSHA512} ->
                        Verdict(CheckPayloadSignature512(req.Body, m.Secret, arg.val))
                   [] OTHER -> [res |-> FALSE, err |-> ErrNil]
            ELSE [res |-> FALSE, err |-> arg.err]
    IN on(ArgumentGet(m.Parameter, req))

-----------------------------------------------------------------------------
(***************************************************************************)
(* Rule trees.  A node is [kind, children, match]; kind "empty" is a Rules  *)
(* value with none of and, or, not, match populated.  Evaluation returns    *)
(* the verdict, the error, and the trace: the positions (paths of child     *)
(* indices from the root) of the nodes it evaluated, in order.              *)
(***************************************************************************)
Node(kind, children, match) == [kind |-> kind, children |-> children, match |-> match]

LeafRule(m) == Node("match", <<>>, m)
AndOf(children) == Node("and", children, NoMatch)
OrOf(children) == Node("or", children, NoMatch)
NotOf(child) == Node("not", <<child>>, NoMatch)
EmptyRule == Node("empty", <<>>, NoMatch)

Result(res, err, trace) == [res |-> res, err |-> err, trace |-> trace]

\* OrRule.Evaluate, the test that ends the loop with (false, err).
OrAborts_NoSoftFailures(err, allowSignatureErrors) ==
    /\ err # ErrNil
    /\ ~IsParameterNodeError(err)

OrAborts_ParameterNodeToo(err, allowSignatureErrors) ==
    /\ err # ErrNil
    /\ (~allowSignatureErrors \/ (allowSignatureErrors /\ ~IsSignatureError(err)))

OrAborts(err, allowSignatureErrors) ==
    /\ err # ErrNil
    /\ ~IsParameterNodeError(err)
    /\ (~allowSignatureErrors \/ (allowSignatureErrors /\ ~IsSignatureError(err)))

\* AndRule.Evaluate, the test that ends the loop with (res, nil).
AndStops_Never(res) == FALSE

AndStops(res) == ~res

\* Rules.Evaluate, the return after the switch: none of and, or, not, match
\* is set.
EmptyEvaluate_True == Result(TRUE, ErrNil, <<>>)

EmptyEvaluate == Result(FALSE, ErrNil, <<>>)

RECURSIVE RulesEvaluate(_, _, _)
RECURSIVE AndLoop(_, _, _, _, _, _)
RECURSIVE OrLoop(_, _, _, _, _, _)

AndLoop(r, i, res, req, path, trace) ==
    IF i > Len(r) THEN Result(res, ErrNil, trace)
    ELSE LET v == RulesEvaluate(r[i], req, Append(path, i))
             t == trace \o v.trace
             res2 == res /\ v.res
         IN IF v.err # ErrNil THEN Result(FALSE, v.err, t)
            ELSE IF AndStops(res2) THEN Result(res2, ErrNil, t)
            ELSE AndLoop(r, i + 1, res2, req, path, t)

OrLoop(r, i, res, req, path, trace) ==
    IF i > Len(r) THEN Result(res, ErrNil, trace)
    ELSE LET v == RulesEvaluate(r[i], req, Append(path, i))
             t == trace \o v.trace
             res2 == res \/ v.res
         IN IF OrAborts(v.err, req.AllowSignatureErrors) THEN Result(FALSE, v.err, t)
            ELSE IF res2 THEN Result(res2, ErrNil, t)
            ELSE OrLoop(r, i + 1, res2, req, path, t)

AndRuleEvaluate(r, req, path) == AndLoop(r, 1, TRUE, req, path, <<>>)

OrRuleEvaluate(r, req, path) == OrLoop(r, 1, FALSE, req, path, <<>>)

NotRuleEvaluate(r, req, path) ==
    LET v == RulesEvaluate(r, req, Append(path, 1))
    IN Result(~v.res, v.err, v.trace)

RulesEvaluate(r, req, path) ==
    LET leaf(m) == Result(m.res, m.err, <<>>)
        at(v) == Result(v.res, v.err, <<path>> \o v.trace)
    IN at(CASE r.kind = "and" -> AndRuleEvaluate(r.children, req, path)
            [] r.kind = "or" -> OrRuleEvaluate(r.children, req, path)
            [] r.kind = "not" -> NotRuleEvaluate(r.children[1], req, path)
            [] r.kind = "match" -> leaf(MatchRuleEvaluate(r.match, req))
            [] OTHER -> EmptyEvaluate)

\* A nil *Rules pointer: the hook has no trigger rule.
NilRule == Node("nil", <<>>, NoMatch)

\* requestExecutionContext.evaluateHookRules: the request with the flag
\* copied into it, and the (ok, err) the handler gets.
WithSoftFailures(req, soft) == [req EXCEPT !.AllowSignatureErrors = soft]

EvaluateHookRules_VerdictDropped(triggerRule, soft, req) ==
    IF triggerRule = NilRule THEN [ok |-> TRUE, err |-> ErrNil]
    ELSE LET v == RulesEvaluate(triggerRule, WithSoftFailures(req, soft), <<>>)
         IN IF v.err # ErrNil /\ ~IsParameterNodeError(v.err)
            THEN [ok |-> FALSE, err |-> v.err]
            ELSE [ok |-> TRUE, err |-> ErrNil]

EvaluateHookRules_NilIsEmpty(triggerRule, soft, req) ==
    LET v == RulesEvaluate(triggerRule, WithSoftFailures(req, soft), <<>>)
    IN IF v.err # ErrNil /\ ~IsParameterNodeError(v.err)
       THEN [ok |-> FALSE, err |-> v.err]
       ELSE [ok |-> v.res, err |-> ErrNil]

EvaluateHookRules(triggerRule, soft, req) ==
    LET returned(v) ==
            IF v.err # ErrNil /\ ~IsParameterNodeError(v.err)
            THEN [ok |-> FALSE, err |-> v.err]
            ELSE [ok |-> v.res, err |-> ErrNil]
    IN IF triggerRule = NilRule THEN [ok |-> TRUE, err |-> ErrNil]
       ELSE returned(RulesEvaluate(triggerRule, WithSoftFailures(req, soft), <<>>))

-----------------------------------------------------------------------------
(***************************************************************************)
(* Hooks and hook files.                                                    *)
(***************************************************************************)
\* hook.Hook, with the fields the modelled code reads.
BaseHook ==
    [ ID |-> "",
      ExecuteCommand |-> "",
      HTTPMethods |-> <<>>,
      TriggerRule |-> NilRule,
      TriggerSignatureSoftFailures |-> FALSE,
      TriggerRuleMismatchHttpResponseCode |-> 0,
      SuccessHttpResponseCode |-> 0,
      ResponseMessage |-> "",
      CaptureCommandOutput |-> FALSE,
      StreamCommandOutput |-> FALSE,
      CaptureCommandOutputOnError |-> FALSE,
      PassArgumentsToCommand |-> <<>>,
      PassFileToCommand |-> <<>> ]

NewHook(id, command) == [BaseHook EXCEPT !.ID = id, !.ExecuteCommand = command]

\* Two definitions of hook "x" and one of hook "y".
HookX1 == NewHook("x", "deploy.sh")
HookX2 == NewHook("x", "redeploy.sh")
HookY == NewHook("y", "notify.sh")

IDs == {"x", "y"}
Paths == {"a.json", "b.json"}

\* A file on disk: readable and parsing to `hooks`, readable but malformed,
\* or absent.
FileOk(hooks) == [state |-> "ok", hooks |-> hooks]
FileBad == [state |-> "bad", hooks |-> <<>>]
FileMissing == [state |-> "missing", hooks |-> <<>>]

\* Hooks.LoadFromFile: the empty path loads nothing and is no error.
LoadFromFile(path, d) ==
    IF path = "" THEN [err |-> FALSE, hooks |-> <<>>]
    ELSE IF d[path].state = "ok" THEN [err |-> FALSE, hooks |-> d[path].hooks]
    ELSE [err |-> TRUE, hooks |-> <<>>]

\* Hooks.Match: the first hook with the ID, as <<hook>>; <<>> is nil.
HooksMatch(hooks, id) ==
    LET at == {i \in DOMAIN hooks : hooks[i].ID = id}
    IN IF at = {} THEN <<>>
       ELSE <<hooks[CHOOSE i \in at : \A j \in at : i <= j]>>

\* Manager.matchLoadedHook tells whether some file holds the ID: used for
\* its nil test, the answer does not depend on the map's iteration order.
MatchLoadedHook(hif, id) == \E f \in DOMAIN hif : HooksMatch(hif[f], id) # <<>>

\* Manager.Get / matchLoadedHook: what a lookup may return, over the orders
\* in which Go may iterate the map.
GetResults(hif, id) ==
    LET holders == {f \in DOMAIN hif : HooksMatch(hif[f], id) # <<>>}
    IN IF holders = {} THEN {<<>>}
       ELSE {HooksMatch(hif[f], id) : f \in holders}

MapPut(m, k, v) == [x \in DOMAIN m \cup {k} |-> IF x = k THEN v ELSE m[x]]
MapDelete(m, k) == [x \in DOMAIN m \ {k} |-> m[x]]

\* Manager.Load, the loop over m.files: a file that cannot be read or parsed
\* is an error and is skipped; a hook whose ID is already loaded from an
\* earlier file is an error, and the file's hooks are stored all the same.
RECURSIVE LoadLoop(_, _, _, _, _)
LoadLoop(fs, i, hif, err, d) ==
    IF i > Len(fs) THEN [map |-> hif, err |-> err]
    ELSE LET f == LoadFromFile(fs[i], d)
             dup == \E k \in DOMAIN f.hooks : MatchLoadedHook(hif, f.hooks[k].ID)
         IN IF f.err THEN LoadLoop(fs, i + 1, hif, TRUE, d)
            ELSE LoadLoop(fs, i + 1, MapPut(hif, fs[i], f.hooks), err \/ dup, d)

\* Manager.Load: the registry, the error, and m.files cut down to the files
\* that were loaded.
ManagerLoad(fs, d) ==
    LET r == LoadLoop(fs, 1, <<>>, FALSE, d)
    IN [ map |-> r.map, err |-> r.err,
         files |-> SelectSeq(fs, LAMBDA f : f \in DOMAIN r.map) ]

\* Manager.reloadHooks, the test that rejects the new sequence at hook h.
ReloadConflict_SeenOnly(hif, path, id, seen) == id \in seen

ReloadConflict_OtherFilesOnly(hif, path, id, seen) ==
    LET wasHookIDAlreadyLoaded ==
            path \in DOMAIN hif /\ \E k \in DOMAIN hif[path] : hif[path][k].ID = id
    IN MatchLoadedHook(hif, id) /\ ~wasHookIDAlreadyLoaded

ReloadConflict(hif, path, id, seen) ==
    LET wasHookIDAlreadyLoaded ==
            path \in DOMAIN hif /\ \E k \in DOMAIN hif[path] : hif[path][k].ID = id
    IN (MatchLoadedHook(hif, id) /\ ~wasHookIDAlreadyLoaded) \/ id \in seen

RECURSIVE ReloadLoop(_, _, _, _, _)
ReloadLoop(new, i, seen, hif, path) ==
    IF i > Len(new) THEN "accepted"
    ELSE IF ReloadConflict(hif, path, new[i].ID, seen) THEN "rejected"
    ELSE ReloadLoop(new, i + 1, seen \cup {new[i].ID}, hif, path)

\* Manager.reloadHooks: parse and swap, or keep the map as it is.
ReloadHooks_NoRevert(hif, path, d) ==
    LET f == LoadFromFile(path, d)
    IN IF f.err THEN [map |-> hif, outcome |-> "unreadable"]
       ELSE [map |-> MapPut(hif, path, f.hooks),
             outcome |-> ReloadLoop(f.hooks, 1, {}, hif, path)]

ReloadHooks(hif, path, d) ==
    LET f == LoadFromFile(path, d)
    IN IF f.err THEN [map |-> hif, outcome |-> "unreadable"]
       ELSE IF ReloadLoop(f.hooks, 1, {}, hif, path) = "rejected"
            THEN [map |-> hif, outcome |-> "rejected"]
            ELSE [map |-> MapPut(hif, path, f.hooks), outcome |-> "accepted"]

\* Manager.removeHooks: the path leaves m.files and the map.
RemoveHooks_KeepsFile(fs, hif, path) ==
    [ files |-> fs, map |-> MapDelete(hif, path) ]

RemoveHooks(fs, hif, path) ==
    [ files |-> SelectSeq(fs, LAMBDA f : f # path),
      map |-> MapDelete(hif, path) ]

\* Manager.watchForFileChange, the branch an event takes.  event.Op is a bit
\* set, tested for Write, then Remove, then Rename; os.Stat runs in the
\* Remove and Rename branches only.
\* Manager.reloadAllHooks: reloadHooks for every file of m.files, in order.
RECURSIVE ReloadAllLoop(_, _, _, _)
ReloadAllLoop(fs, i, hif, d) ==
    IF i > Len(fs) THEN hif
    ELSE ReloadAllLoop(fs, i + 1, ReloadHooks(hif, fs[i], d).map, d)

ReloadAllHooks(fs, hif, d) == ReloadAllLoop(fs, 1, hif, d)

WatchBranch_RemoveWithoutStat(ops, exists) ==
    IF "Write" \in ops THEN "reload"
    ELSE IF "Remove" \in ops THEN "remove"
    ELSE IF "Rename" \in ops THEN (IF ~exists THEN "remove" ELSE "reload-rewatch")
    ELSE "ignore"

WatchBranch(ops, exists) ==
    IF "Write" \in ops THEN "reload"
    ELSE IF "Remove" \in ops THEN (IF ~exists THEN "remove" ELSE "ignore")
    ELSE IF "Rename" \in ops THEN (IF ~exists THEN "remove" ELSE "reload-rewatch")
    ELSE "ignore"

-----------------------------------------------------------------------------
(***************************************************************************)
(* Idle values: what a specification gives the variables it does not drive. *)
(***************************************************************************)
NoResult == Result(FALSE, ErrNil, <<>>)
NoTrigger == [ok |-> FALSE, err |-> ErrNil]
NoLast == [op |-> "none", path |-> "", ops |-> {}, outcome |-> "none"]
NoOpts == [defaultAllowedMethods |-> <<>>]
NoResponse ==
    [ hookId |-> "", method |-> <<>>, content |-> "", flushable |-> FALSE,
      command |-> "", req |-> <<>>, hook |-> <<>>, kind |-> "none",
      evaluated |-> FALSE, executes |-> 0, events |-> <<>> ]

RulesIdle ==
    /\ rule = NilRule
    /\ softFail = FALSE
    /\ hookReq \in { r \in Requests : r.Headers = <<>> /\ r.Payload = <<>> }
    /\ ruleEval = NoResult
    /\ trigger = NoTrigger
    /\ rulePc = "idle"

RegistryIdle ==
    /\ phase = "idle"
    /\ files = <<>>
    /\ hooksInFiles = <<>>
    /\ disk = <<>>
    /\ watched = {}
    /\ last = NoLast
    /\ lastGood = <<>>

ReaderIdle ==
    /\ reader = <<>>
    /\ mapRace = FALSE

SignalsIdle ==
    /\ signals = <<>>
    /\ sigLoop = "idle"
    /\ notifyChan = 0
    /\ sent = 0

NoExec ==
    [ timeout |-> 0, ignoresTerm |-> FALSE, files |-> <<>>, found |-> FALSE,
      starts |-> FALSE, mode |-> "none" ]
NoProc == [state |-> "none", gotTerm |-> FALSE, early |-> FALSE, earlyKill |-> FALSE]
NoTimer == [state |-> "unset", left |-> 0]
NoTicks == [sinceArm |-> 0, sinceTerm |-> 0]

ExecIdle ==
    /\ exec = NoExec
    /\ runPc = "idle"
    /\ tmp = <<>>
    /\ proc = NoProc
    /\ termTimer = NoTimer
    /\ killTimer = NoTimer
    /\ cbPc = "idle"
    /\ kills = <<>>
    /\ ticks = NoTicks
    /\ responded = FALSE

ParamsIdle ==
    /\ params = <<>>
    /\ pin = <<>>
    /\ pout = <<>>
    /\ ppc = "idle"

PipelineIdle ==
    /\ opts = NoOpts
    /\ response = NoResponse
    /\ runs = 0

-----------------------------------------------------------------------------
(***************************************************************************)
(* SpecRules: evaluateHookRules applied to every trigger rule of a bounded  *)
(* shape, every modelled request and both values of the soft-failure flag.  *)
(***************************************************************************)
MaxChildren == 2

SigParam == Arg("header", "X-Hub-Signature")
RefParam == Arg("payload", "ref")

ValMaster == LeafRule(Match(MatchValue, "", Master, RefParam))
ValDev == LeafRule(Match(MatchValue, "", "refs/heads/dev", RefParam))
HmacGood == LeafRule(Match(MatchHMACSHA1, Secret1, "", SigParam))
HmacBad == LeafRule(Match(MatchHMACSHA1, Secret2, "", SigParam))
HmacEmpty == LeafRule(Match(MatchHMACSHA1, "", "", SigParam))

Leaves == {ValMaster, ValDev, HmacGood, HmacBad, HmacEmpty}
HmacPairs == {HmacGood, HmacBad} \X {HmacGood, HmacBad}

\* The nodes a top-level node may have as children.
Pool ==
    Leaves \cup {NotOf(l) : l \in Leaves} \cup {EmptyRule}
      \cup {AndOf(c) : c \in HmacPairs} \cup {OrOf(c) : c \in HmacPairs}

SeqsUpTo(S, n) == UNION {[1..k -> S] : k \in 0..n}

TriggerRules ==
    {NilRule} \cup Pool \cup {NotOf(c) : c \in Pool}
      \cup {AndOf(c) : c \in SeqsUpTo(Pool, MaxChildren)}
      \cup {OrOf(c) : c \in SeqsUpTo(Pool, MaxChildren)}

InitRules ==
    /\ rule \in TriggerRules
    /\ softFail \in BOOLEAN
    /\ hookReq \in Requests
    /\ ruleEval = NoResult
    /\ trigger = NoTrigger
    /\ rulePc = "ready"
    /\ RegistryIdle /\ ReaderIdle /\ SignalsIdle /\ PipelineIdle /\ ExecIdle /\ ParamsIdle

\* requestExecutionContext.evaluateHookRules
EvaluateHookRulesStep ==
    /\ rulePc = "ready"
    /\ rulePc' = "done"
    /\ hookReq' = IF rule = NilRule THEN hookReq ELSE WithSoftFailures(hookReq, softFail)
    /\ ruleEval' = IF rule = NilRule THEN NoResult ELSE RulesEvaluate(rule, hookReq', <<>>)
    /\ trigger' = EvaluateHookRules(rule, softFail, hookReq)
    /\ UNCHANGED <<rule, softFail, registryVars, readerVars, signalVars, pipelineVars, execVars, paramVars>>

NextRules == EvaluateHookRulesStep

SpecRules == InitRules /\ [][NextRules]_vars

-----------------------------------------------------------------------------
(***************************************************************************)
(* Claims about the rule engine (checked under SpecRules).                  *)
(***************************************************************************)
Range(s) == {s[i] : i \in DOMAIN s}

\* What the i-th child of the top node evaluates to, taken on its own.
ChildResult(i) == RulesEvaluate(rule.children[i], hookReq, <<i>>)

\* Whether the evaluation of the top node evaluated its i-th child.
Evaluated(i) == <<i>> \in Range(ruleEval.trace)

Children == 1..Len(rule.children)

\* An error the `or` node is said to suppress.
Suppressible(err) ==
    IsParameterNodeError(err) \/ (IsSignatureError(err) /\ softFail)

OrDone == rulePc = "done" /\ rule.kind = "or"
AndDone == rulePc = "done" /\ rule.kind = "and"

C3_OrSuppression ==
    OrDone =>
        /\ hookReq.AllowSignatureErrors = softFail
        /\ \A i \in Children :
              (Evaluated(i) /\ ChildResult(i).err # ErrNil) =>
                 IF Suppressible(ChildResult(i).err)
                 THEN /\ ChildResult(i).res => (ruleEval.res /\ ruleEval.err = ErrNil)
                      /\ (~ChildResult(i).res /\ i < Len(rule.children)) => Evaluated(i + 1)
                      /\ (~ChildResult(i).res /\ i = Len(rule.children)) =>
                            (~ruleEval.res /\ ruleEval.err = ErrNil)
                 ELSE /\ ~ruleEval.res
                      /\ ruleEval.err = ChildResult(i).err
                      /\ \A j \in Children : j > i => ~Evaluated(j)

\* C3 witness: soft failures on; the signature error of the first child is
\* suppressed, the empty-secret error of the second ends the node.
C3_Witness ==
    /\ OrDone /\ softFail /\ Len(rule.children) = 2
    /\ ChildResult(1).err = ErrSignature
    /\ Evaluated(2)
    /\ rule.children[2] = HmacEmpty
    /\ ChildResult(2).err = ErrOther
    /\ ~ruleEval.res /\ ruleEval.err = ErrOther

\* C4: an `and` node with a child that evaluates to false evaluates to
\* false, and evaluates no child after the first false one.
C4_AndShortCircuit ==
    AndDone =>
        \A i \in Children :
            ~ChildResult(i).res =>
                /\ ~ruleEval.res
                /\ \A j \in Children : j > i => ~Evaluated(j)

\* C4 witness: the first child is false without error, the second would be
\* true and is not evaluated.
C4_Witness ==
    /\ AndDone /\ Len(rule.children) = 2
    /\ ~ChildResult(1).res /\ ChildResult(1).err = ErrNil
    /\ ChildResult(2).res
    /\ ~Evaluated(2)
    /\ ~ruleEval.res /\ ruleEval.err = ErrNil

-----------------------------------------------------------------------------
(***************************************************************************)
(* Spec: the hook registry from start-up on (main: Load, then               *)
(* StartFileWatcher with -hotreload), the hooks files changing on disk, and *)
(* the watcher task taking filesystem events.                               *)
(***************************************************************************)
Contents ==
    { <<HookX1>>, <<HookX2>>, <<HookY>>, <<HookX1, HookY>>, <<HookX1, HookX2>> }

DiskStates == {FileOk(c) : c \in Contents} \cup {FileBad, FileMissing}

FileLists == { <<"a.json">>, <<"a.json", "b.json">> }

\* fsnotify.Op values of the events delivered: single operations and
\* operations reported together in one event.
EventOps ==
    { {"Write"}, {"Remove"}, {"Rename"}, {"Chmod"},
      {"Write", "Remove"}, {"Remove", "Rename"} }

\* History: a new sequence for `path` that conflicts with no other file and
\* holds no ID twice is a successful (re)load of that file.
Acceptable(new, path, hif) ==
    /\ \A i, j \in DOMAIN new : new[i].ID = new[j].ID => i = j
    /\ \A i \in DOMAIN new :
          \A q \in DOMAIN hif \ {path} : HooksMatch(hif[q], new[i].ID) = <<>>

GoodAfterReload(lg, hif, path, d) ==
    IF d[path].state = "ok" /\ Acceptable(d[path].hooks, path, hif)
    THEN MapPut(lg, path, d[path].hooks)
    ELSE lg

InitRegistry ==
    /\ phase = "init"
    /\ files \in FileLists
    /\ hooksInFiles = <<>>
    /\ disk \in [Paths -> DiskStates]
    /\ watched = {}
    /\ last = NoLast
    /\ lastGood = <<>>

Init ==
    /\ InitRegistry
    /\ RulesIdle /\ ReaderIdle /\ SignalsIdle /\ PipelineIdle /\ ExecIdle /\ ParamsIdle

\* main: hooks.Load(); an error ends the process (os.Exit(1)).
Load ==
    /\ phase = "init"
    /\ LET r == ManagerLoad(files, disk)
       IN /\ hooksInFiles' = r.map
          /\ files' = r.files
          /\ phase' = IF r.err THEN "exited" ELSE "loaded"
    /\ lastGood' = [f \in {g \in Range(files) : disk[g].state = "ok"} |-> disk[f].hooks]
    /\ UNCHANGED <<disk, watched, last>>

\* Manager.StartFileWatcher: every file of m.files is added to the watcher;
\* a file that cannot be added ends the process.
StartFileWatcher ==
    /\ phase = "loaded"
    /\ IF \E f \in Range(files) : disk[f].state = "missing"
       THEN phase' = "exited" /\ watched' = watched
       ELSE phase' = "running" /\ watched' = Range(files)
    /\ UNCHANGED <<files, hooksInFiles, disk, last, lastGood>>

\* The environment rewrites, replaces, corrupts or removes a hooks file.
FsChange(path, d) ==
    /\ phase \in {"loaded", "running"}
    /\ disk[path] # d
    /\ disk' = [disk EXCEPT ![path] = d]
    /\ UNCHANGED <<phase, files, hooksInFiles, watched, last, lastGood>>

\* Manager.watchForFileChange, one event of a watched file.
WatchForFileChange(path, ops) ==
    /\ phase = "running"
    /\ path \in watched
    /\ LET exists == disk[path].state # "missing"
           branch == WatchBranch(ops, exists)
           reloaded == ReloadHooks(hooksInFiles, path, disk)
           removed == RemoveHooks(files, hooksInFiles, path)
       IN /\ hooksInFiles' =
                CASE branch \in {"reload", "reload-rewatch"} -> reloaded.map
                  [] branch = "remove" -> removed.map
                  [] OTHER -> hooksInFiles
          /\ files' = IF branch = "remove" THEN removed.files ELSE files
          /\ watched' =
                CASE branch = "remove" -> watched \ {path}
                  [] branch = "reload-rewatch" -> (watched \ {path}) \cup {path}
                  [] OTHER -> watched
          /\ last' = [ op |-> branch, path |-> path, ops |-> ops,
                       outcome |-> IF branch \in {"reload", "reload-rewatch"}
                                   THEN reloaded.outcome ELSE "none" ]
          /\ lastGood' =
                CASE branch \in {"reload", "reload-rewatch"} ->
                        GoodAfterReload(lastGood, hooksInFiles, path, disk)
                  [] branch = "remove" -> MapDelete(lastGood, path)
                  [] OTHER -> lastGood
    /\ UNCHANGED <<phase, disk>>

notRegistry == <<ruleVars, readerVars, signalVars, pipelineVars, execVars, paramVars>>

Next ==
    \/ Load /\ UNCHANGED notRegistry
    \/ StartFileWatcher /\ UNCHANGED notRegistry
    \/ \E path \in Paths, d \in DiskStates :
          FsChange(path, d) /\ UNCHANGED notRegistry
    \/ \E path \in Paths, ops \in EventOps :
          WatchForFileChange(path, ops) /\ UNCHANGED notRegistry

Spec == Init /\ [][Next]_vars

-----------------------------------------------------------------------------
(***************************************************************************)
(* Claims about the registry (checked under Spec).                          *)
(***************************************************************************)
\* The places (file, index) at which the registry holds the ID.
Occurrences(hif, id) ==
    {<<f, i>> \in UNION {{f} \X DOMAIN hif[f] : f \in DOMAIN hif} : hif[f][i].ID = id}

\* The files other than `path` that hold the ID.
OtherHolders(hif, path, id) ==
    {q \in DOMAIN hif \ {path} : HooksMatch(hif[q], id) # <<>>}

HasDuplicate(hooks) == \E i, j \in DOMAIN hooks : i # j /\ hooks[i].ID = hooks[j].ID

\* C5 as stated: while the process serves (after Load, through reloads and
\* removals) no hook ID occurs twice in the registry, neither within one
\* file nor in two files.
C5_UniqueIDs ==
    phase \in {"loaded", "running"} =>
        \A id \in IDs : Cardinality(Occurrences(hooksInFiles, id)) <= 1

\* A step of the watcher task (it never touches the disk; every other step
\* of a running process does).
WatcherStep == phase = "running" /\ disk' = disk /\ last'.op # "none"

\* C6: a reload of a file whose new sequence holds an ID that another file
\* holds, or holds an ID twice, leaves the registry as it was, and a lookup
\* of the conflicting ID still returns the other file's definition.
C6_Step ==
    (WatcherStep /\ last'.op \in {"reload", "reload-rewatch"}
                 /\ disk[last'.path].state = "ok") =>
        LET path == last'.path
            new == disk[path].hooks
            conflicting == {id \in IDs : /\ HooksMatch(new, id) # <<>>
                                         /\ OtherHolders(hooksInFiles, path, id) # {}}
        IN (conflicting # {} \/ HasDuplicate(new)) =>
              /\ hooksInFiles' = hooksInFiles
              /\ files' = files
              /\ \A id \in conflicting :
                    \A q \in OtherHolders(hooksInFiles, path, id) :
                        GetResults(hooksInFiles', id) = {HooksMatch(hooksInFiles[q], id)}

C6_RejectedReloadKeepsRegistry == [][C6_Step]_vars

\* C6 witness: file b.json was rewritten to define "x", which a.json holds;
\* the reload was rejected and b.json still serves "y".
C6_Witness ==
    /\ phase = "running"
    /\ last.op = "reload" /\ last.path = "b.json" /\ last.outcome = "rejected"
    /\ disk["b.json"] = FileOk(<<HookX2>>)
    /\ "a.json" \in DOMAIN hooksInFiles /\ "b.json" \in DOMAIN hooksInFiles
    /\ hooksInFiles["a.json"] = <<HookX1>>
    /\ hooksInFiles["b.json"] = <<HookY>>
    /\ GetResults(hooksInFiles, "x") = {<<HookX1>>}

\* C7: a lookup has one possible result whatever the iteration order of the
\* map, and a hook it returns is the definition of that ID in the latest
\* successfully loaded or reloaded sequence of a file that is still in the
\* registry.
C7_OneDefinitionPerID ==
    phase = "running" =>
        \A id \in IDs :
            LET rs == GetResults(hooksInFiles, id)
            IN /\ Cardinality(rs) = 1
               /\ \A r \in rs :
                     r # <<>> =>
                        \E f \in DOMAIN lastGood :
                            /\ f \in DOMAIN hooksInFiles
                            /\ r = HooksMatch(lastGood[f], id)

\* C7 witness: a.json was reloaded from the first definition of "x" to the
\* second, a later rewrite of it does not parse, and "x" resolves to the
\* second definition.
C7_Witness ==
    /\ phase = "running"
    /\ last.op = "reload" /\ last.path = "a.json" /\ last.outcome = "unreadable"
    /\ disk["a.json"] = FileBad
    /\ GetResults(hooksInFiles, "x") = {<<HookX2>>}
    /\ lastGood["a.json"] = <<HookX2>>

\* What a reload and a removal of `path` are to do to the registry.
Reloaded(path) ==
    /\ files' = files
    /\ hooksInFiles' =
          IF disk[path].state = "ok" /\ Acceptable(disk[path].hooks, path, hooksInFiles)
          THEN MapPut(hooksInFiles, path, disk[path].hooks)
          ELSE hooksInFiles

Removed(path) ==
    /\ files' = SelectSeq(files, LAMBDA f : f # path)
    /\ hooksInFiles' = MapDelete(hooksInFiles, path)

\* C10: the watcher task maps an event to one registry action.  (An event
\* counts as Write when its Op has the Write bit, as Remove when it has the
\* Remove bit and not Write, as Rename when it has the Rename bit and
\* neither of the others.)  Write reloads the file; Remove removes the
\* file's hooks and unwatches it if the path is gone and changes nothing
\* otherwise; Rename removes and unwatches if the path is gone and otherwise
\* reloads the file and leaves it watched.
C10_Step ==
    WatcherStep =>
        LET path == last'.path
            ops == last'.ops
            gone == disk[path].state = "missing"
            unchanged == /\ hooksInFiles' = hooksInFiles
                         /\ files' = files
                         /\ watched' = watched
        IN CASE "Write" \in ops -> Reloaded(path) /\ watched' = watched
             [] "Write" \notin ops /\ "Remove" \in ops ->
                    IF gone THEN Removed(path) /\ watched' = watched \ {path}
                    ELSE unchanged
             [] ops \cap {"Write", "Remove"} = {} /\ "Rename" \in ops ->
                    IF gone THEN Removed(path) /\ watched' = watched \ {path}
                    ELSE Reloaded(path) /\ watched' = watched /\ path \in watched'
             [] OTHER -> unchanged

C10_EventsMapToActions == [][C10_Step]_vars

\* C10 witness: a hooks file was replaced by rename; the path exists again,
\* the file was reloaded and is still watched.
C10_Witness ==
    /\ phase = "running"
    /\ last.op = "reload-rewatch" /\ last.ops = {"Rename"} /\ last.outcome = "accepted"
    /\ last.path \in watched
    /\ hooksInFiles[last.path] = disk[last.path].hooks

-----------------------------------------------------------------------------
(***************************************************************************)
(* The request pipeline: RequestHandler.ServeHTTP and                       *)
(* requestExecutionContext.Handle.  A method name or an entry of a method   *)
(* list is a sequence of characters, so that trimming and upper-casing are  *)
(* computed.                                                                *)
(***************************************************************************)
LowerCase == <<"e", "g", "o", "p", "s", "t">>
UpperCase == <<"E", "G", "O", "P", "S", "T">>

\* strings.ToUpper
ToUpperChar(c) ==
    IF \E i \in DOMAIN LowerCase : LowerCase[i] = c
    THEN UpperCase[CHOOSE i \in DOMAIN LowerCase : LowerCase[i] = c]
    ELSE c

ToUpper(s) == [i \in DOMAIN s |-> ToUpperChar(s[i])]

\* strings.TrimSpace
RECURSIVE TrimSpace(_)
TrimSpace(s) ==
    IF s = <<>> THEN s
    ELSE IF Head(s) = " " THEN TrimSpace(Tail(s))
    ELSE IF s[Len(s)] = " " THEN TrimSpace(SubSeq(s, 1, Len(s) - 1))
    ELSE s

\* methodInList: the entry is trimmed and upper-cased, the request's method
\* is compared as it came.
MethodInList(method, methods) ==
    \E i \in DOMAIN methods : ToUpper(TrimSpace(methods[i])) = method

\* requestExecutionContext.IsHTTPMethodAllowed
IsHTTPMethodAllowed(h, method, o) ==
    IF Len(h.HTTPMethods) > 0 THEN MethodInList(method, h.HTTPMethods)
    ELSE IF Len(o.defaultAllowedMethods) > 0
         THEN MethodInList(method, o.defaultAllowedMethods)
    ELSE TRUE

StatusOK == 200
StatusNotFound == 404
StatusMethodNotAllowed == 405
StatusInternalServerError == 500

\* The codes for which http.StatusText is not empty, among those in use.
StatusTextKnown(code) ==
    code \in {StatusOK, 201, 204, 400, 403, StatusNotFound,
              StatusMethodNotAllowed, StatusInternalServerError}

\* What a handler does to the http.ResponseWriter, in order.
WriteHeader(code) == << [w |-> "header", code |-> code, text |-> ""] >>
WriteBody(text) == << [w |-> "body", code |-> 0, text |-> text] >>

\* requestExecutionContext.writeHttpStatus: 0 stands for 200; a code the
\* http package does not know writes no header.
WriteHttpStatus(responseCode) ==
    LET code == IF responseCode = 0 THEN StatusOK ELSE responseCode
    IN IF StatusTextKnown(code) THEN WriteHeader(code) ELSE <<>>

\* requestExecutionContext.writeResponse
WriteResponse(status, message) == WriteHttpStatus(status) \o WriteBody(message)

MsgNotFound == "Hook not found."
MsgParse == "error occurred while parsing multipart form"
MsgRulesError == "Error occurred while evaluating hook rules."
MsgMismatch == "Hook rules were not satisfied."
MsgExecError ==
    "Error occurred while executing the hook's command. Please check logs for more details."

\* How a request's body is carried.
ContentKinds == {"json", "multipart", "multipart-malformed"}

\* requestExecutionContext.ParseRequest: a multipart body is not read into
\* Body; only a multipart form that cannot be parsed is an error, and then
\* the payload stays unset.
ParseRequest(req, content) ==
    CASE content = "json" -> [err |-> FALSE, req |-> req]
      [] content = "multipart" -> [err |-> FALSE, req |-> [req EXCEPT !.Body = ""]]
      [] OTHER -> [err |-> TRUE, req |-> [req EXCEPT !.Body = "", !.Payload = <<>>]]

\* What becomes of the hook's command when the executor runs it.
CommandOutcomes == {"exit-0", "exit-1", "not-found"}
CommandOutput == "command output"

\* The chunks a command writes to its output: all of them when it runs to
\* its end, the first when it is ended early.
Chunks == <<"line 1\n", CommandOutput>>

\* Executor.Execute: a command that exec.LookPath does not find is an error
\* and is not started; a started command writes its output and is an error
\* when it exits non-zero or is ended by a signal (code -1).
Execute(command) ==
    CASE command = "not-found" ->
            [started |-> FALSE, err |-> TRUE, code |-> -1, output |-> <<>>]
      [] command = "exit-1" ->
            [started |-> TRUE, err |-> TRUE, code |-> 1, output |-> Chunks]
      [] command = "exit-2" ->
            [started |-> TRUE, err |-> TRUE, code |-> 2, output |-> Chunks]
      [] command = "killed" ->
            [started |-> TRUE, err |-> TRUE, code |-> -1, output |-> SubSeq(Chunks, 1, 1)]
      [] OTHER -> [started |-> TRUE, err |-> FALSE, code |-> 0, output |-> Chunks]

Started(x) == IF x.started THEN 1 ELSE 0

\* bytes.Buffer.String(): what was written, joined.
RECURSIVE Join(_)
Join(chunks) == IF chunks = <<>> THEN "" ELSE Head(chunks) \o Join(Tail(chunks))

\* The command's start and end, logged between the writes where the handler
\* waits for the command.
CommandStarts == << [w |-> "start", code |-> 0, text |-> ""] >>
CommandEnds == << [w |-> "exit", code |-> 0, text |-> ""] >>
Flush == << [w |-> "flush", code |-> 0, text |-> ""] >>

\* flushWriter.Write for every chunk: written, then flushed.
RECURSIVE StreamChunks(_)
StreamChunks(chunks) ==
    IF chunks = <<>> THEN <<>>
    ELSE WriteBody(Head(chunks)) \o Flush \o StreamChunks(Tail(chunks))

Ran(x, writes) == IF x.started THEN CommandStarts \o writes \o CommandEnds ELSE <<>>

\* The exit code Handle prints in the streamed mode.
TrailerCode(x) == IF x.err THEN 1 ELSE 0

Trailer(code) == "\n---\n" \o ToString(code) \o "\n"

Handled(kind, evaluated, executes, started, events) ==
    [kind |-> kind, evaluated |-> evaluated, executes |-> executes,
     runs |-> started, events |-> events]

\* Handle, the switch over the hook's output flags with the type assertion
\* on the writer, tried without the assertion first.
ResponseMode_IgnoresFlusher(h, flushable) ==
    IF h.StreamCommandOutput THEN "streamed"
    ELSE IF h.CaptureCommandOutput THEN "buffered"
    ELSE "detached"

ResponseMode(h, flushable) ==
    IF h.StreamCommandOutput /\ flushable THEN "streamed"
    ELSE IF h.StreamCommandOutput \/ h.CaptureCommandOutput THEN "buffered"
    ELSE "detached"

\* Handle, the response modes of a triggered hook.
HandleTriggered(h, flushable, command, written) ==
    LET x == Execute(command)
        mode == ResponseMode(h, flushable)
    IN
    IF mode = "streamed"
    THEN Handled("streamed", TRUE, 1, Started(x),
            written \o WriteHeader(StatusOK)
                \o Ran(x, StreamChunks(x.output))
                \o WriteBody(Trailer(TrailerCode(x))) \o Flush)
    ELSE IF mode = "buffered"
    THEN Handled("buffered", TRUE, 1, Started(x),
            written \o Ran(x, <<>>) \o
            (IF x.err
             THEN WriteHeader(StatusInternalServerError)
                    \o (IF ~h.CaptureCommandOutputOnError
                        THEN WriteBody(MsgExecError)
                        ELSE WriteBody(Join(x.output)))
             ELSE WriteHttpStatus(h.SuccessHttpResponseCode) \o WriteBody(Join(x.output))))
    ELSE Handled("detached", TRUE, 1, Started(x),
            written \o WriteResponse(h.SuccessHttpResponseCode, h.ResponseMessage))

\* requestExecutionContext.Handle
Handle(h, method, req, content, flushable, command, o) ==
    IF ~IsHTTPMethodAllowed(h, method, o)
    THEN Handled("method-not-allowed", FALSE, 0, 0, WriteHeader(StatusMethodNotAllowed))
    ELSE LET parsed == ParseRequest(req, content)
             written == IF parsed.err
                        THEN WriteResponse(StatusInternalServerError, MsgParse)
                        ELSE <<>>
             t == EvaluateHookRules(h.TriggerRule, h.TriggerSignatureSoftFailures,
                                    parsed.req)
         IN IF t.err # ErrNil
            THEN Handled("rules-error", TRUE, 0, 0,
                    written \o WriteResponse(StatusInternalServerError, MsgRulesError))
            ELSE IF ~t.ok
            THEN Handled("mismatch", TRUE, 0, 0,
                    written \o WriteResponse(h.TriggerRuleMismatchHttpResponseCode,
                                             MsgMismatch))
            ELSE HandleTriggered(h, flushable, command, written)

\* RequestHandler.ServeHTTP on the hook Manager.Get returned (<<>> is nil).
ServeHTTPOn(matched, method, req, content, flushable, command, o) ==
    IF matched = <<>>
    THEN Handled("not-found", FALSE, 0, 0,
            WriteHeader(StatusNotFound) \o WriteBody(MsgNotFound))
    ELSE Handle(matched[1], method, req, content, flushable, command, o)

-----------------------------------------------------------------------------
(***************************************************************************)
(* SpecPipeline: a daemon serving one hooks file with one hook, and         *)
(* requests arriving for it and for an ID that is not loaded.               *)
(***************************************************************************)
MethodPOST == <<"P", "O", "S", "T">>
MethodGET == <<"G", "E", "T">>
MethodLower == <<"p", "o", "s", "t">>
EntryPost == <<"P", "o", "s", "t", " ">>

RequestMethods == {MethodPOST, MethodGET, MethodLower}

\* The hook served, after the fixtures: http-methods ["Post "], no rule.
PipelineHook == [NewHook("x", "deploy.sh") EXCEPT !.HTTPMethods = <<EntryPost>>]

PipelineRules ==
    {NilRule, ValMaster, NotOf(ValMaster), OrOf(<<HmacBad, HmacGood>>), HmacEmpty}

\* The hooks served, each differing from the fixture hook in its rule, in
\* its mismatch code or soft-failure flag, or in its response mode.
PipelineHooks ==
    { [PipelineHook EXCEPT !.TriggerRule = tr] : tr \in PipelineRules }
    \cup
    { [PipelineHook EXCEPT !.TriggerRule = OrOf(<<HmacBad, HmacGood>>),
                           !.TriggerSignatureSoftFailures = TRUE],
      [PipelineHook EXCEPT !.TriggerRule = ValMaster,
                           !.TriggerRuleMismatchHttpResponseCode = 400] }
    \cup
    { [PipelineHook EXCEPT !.HTTPMethods = <<>>,
                           !.ResponseMessage = "ok",
                           !.StreamCommandOutput = st,
                           !.CaptureCommandOutput = cap,
                           !.CaptureCommandOutputOnError = coe] :
        st \in BOOLEAN, cap \in BOOLEAN, coe \in BOOLEAN }
    \cup
    { [PipelineHook EXCEPT !.CaptureCommandOutput = TRUE,
                           !.SuccessHttpResponseCode = 201] }

\* The requests sent: one without the signature header and the ref, one
\* with both; as JSON or as a multipart form that does not parse.
PipelineRequests == { r \in Requests : (r.Headers = <<>>) <=> (r.Payload = <<>>) }
PipelineContents == {"json", "multipart-malformed"}

PipelineOpts == { [defaultAllowedMethods |-> m] : m \in { <<>>, <<MethodGET>> } }

InitPipeline ==
    /\ phase = "init"
    /\ files = <<"a.json">>
    /\ hooksInFiles = <<>>
    /\ \E h \in PipelineHooks :
          disk = [f \in Paths |-> IF f = "a.json" THEN FileOk(<<h>>) ELSE FileMissing]
    /\ watched = {}
    /\ last = NoLast
    /\ lastGood = <<>>
    /\ opts \in PipelineOpts
    /\ response = NoResponse
    /\ runs = 0
    /\ RulesIdle /\ ReaderIdle /\ SignalsIdle /\ ExecIdle /\ ParamsIdle

\* RequestHandler.ServeHTTP, one request from its arrival to its response.
ServeHTTP(hookId, method, req, content, flushable, command) ==
    /\ phase \in {"loaded", "running"}
    /\ \E matched \in GetResults(hooksInFiles, hookId) :
          LET r == ServeHTTPOn(matched, method, req, content, flushable, command, opts)
          IN /\ response' =
                   [ hookId |-> hookId, method |-> method, content |-> content,
                     flushable |-> flushable, command |-> command, req |-> req,
                     hook |-> matched, kind |-> r.kind, evaluated |-> r.evaluated,
                     executes |-> r.executes, events |-> r.events ]
             /\ runs' = r.runs
    /\ UNCHANGED <<opts, registryVars, ruleVars, readerVars, signalVars, execVars, paramVars>>

NextPipeline ==
    \/ Load /\ UNCHANGED notRegistry
    \/ \E hookId \in IDs, method \in RequestMethods, req \in PipelineRequests,
          content \in PipelineContents, flushable \in BOOLEAN, command \in CommandOutcomes :
          ServeHTTP(hookId, method, req, content, flushable, command)

SpecPipeline == InitPipeline /\ [][NextPipeline]_vars

-----------------------------------------------------------------------------
(***************************************************************************)
(* Claims about the request pipeline (checked under SpecPipeline).          *)
(***************************************************************************)
\* The status line of the response: the first header written.
Is404 == response.events # <<>> /\ response.events[1] = WriteHeader(StatusNotFound)[1]
Is405 ==
    response.events # <<>> /\ response.events[1] = WriteHeader(StatusMethodNotAllowed)[1]
IsMismatch == \E i \in DOMAIN response.events : response.events[i] = WriteBody(MsgMismatch)[1]

\* The verdict of the matched hook's trigger rule on the request as parsed.
RuleVerdict ==
    LET h == response.hook[1]
        req == ParseRequest(response.req, response.content).req
    IN RulesEvaluate(h.TriggerRule, WithSoftFailures(req, h.TriggerSignatureSoftFailures),
                     <<>>)

\* C1: the hook's command is started only for a request whose hook ID is in
\* the registry, whose method passed the method gate and whose hook has no
\* trigger rule or a trigger rule that evaluated to true; a request answered
\* with 404, 405 or the rule-mismatch message started no command.
C1_CommandOnlyWhenTriggered ==
    /\ runs > 0 =>
          /\ MatchLoadedHook(hooksInFiles, response.hookId)
          /\ response.hook # <<>>
          /\ response.hook[1].ID = response.hookId
          /\ IsHTTPMethodAllowed(response.hook[1], response.method, opts)
          /\ \/ response.hook[1].TriggerRule = NilRule
             \/ RuleVerdict.res
    /\ (Is404 \/ Is405 \/ IsMismatch) => (runs = 0 /\ response.executes = 0)

\* C1 witness: a POST passed the gate of ["Post "], the `or` of two HMAC
\* predicates evaluated to true, and the command was started.
C1_Witness ==
    /\ runs = 1
    /\ response.method = MethodPOST
    /\ response.hook # <<>>
    /\ response.hook[1].HTTPMethods = <<EntryPost>>
    /\ response.hook[1].TriggerRule = OrOf(<<HmacBad, HmacGood>>)
    /\ response.hook[1].TriggerSignatureSoftFailures
    /\ response.kind = "detached"

-----------------------------------------------------------------------------
(***************************************************************************)
(* SpecGet: request handlers inside Manager.Get while the watcher task      *)
(* reloads or removes a file.  Get iterates m.hooksInFiles step by step;    *)
(* nothing orders its reads with the watcher task's writes of the same map  *)
(* (the Manager has no lock), so a write that falls into an iteration is a  *)
(* data race: the iteration may read the file's old sequence, its new       *)
(* sequence or a slice header torn between the two, and the runtime may     *)
(* end the process ("concurrent map iteration and map write").              *)
(***************************************************************************)
Readers == {"handler-1"}

ReaderIdleState ==
    [ pc |-> "idle", id |-> "", visited |-> {}, stale |-> <<>>,
      result |-> <<>>, mixed |-> FALSE ]

Min(a, b) == IF a <= b THEN a ELSE b

\* What a read of the map entry may deliver while the entry is assigned:
\* the slice header is three words (pointer, length, capacity), so besides
\* old and new there is the old array cut to the new length and the new
\* array cut to the old length.
TornValues(old, new) ==
    LET n == Min(Len(old), Len(new))
    IN {old, new, SubSeq(old, 1, n), SubSeq(new, 1, n)}

EntryOf(hif, path) == IF path \in DOMAIN hif THEN hif[path] ELSE <<>>

GetDiskStates == {FileOk(<<HookX1, HookY>>), FileOk(<<HookY>>), FileMissing}
GetEventOps == { {"Write"}, {"Remove"} }

InitGet ==
    /\ phase = "init"
    /\ files = <<"a.json">>
    /\ hooksInFiles = <<>>
    /\ disk \in { [f \in Paths |-> IF f = "a.json" THEN d ELSE FileMissing] :
                    d \in GetDiskStates \ {FileMissing} }
    /\ watched = {}
    /\ last = NoLast
    /\ lastGood = <<>>
    /\ reader = [r \in Readers |-> ReaderIdleState]
    /\ mapRace = FALSE
    /\ RulesIdle /\ SignalsIdle /\ PipelineIdle /\ ExecIdle /\ ParamsIdle

\* Manager.Get is entered.
GetStart(r, id) ==
    /\ phase \in {"loaded", "running"}
    /\ reader[r].pc = "idle"
    /\ reader' = [reader EXCEPT ![r] = [ReaderIdleState EXCEPT !.pc = "iterating", !.id = id]]
    /\ UNCHANGED mapRace

\* matchLoadedHook, one round of the range loop (or its end).
GetStep(r) ==
    /\ phase \in {"loaded", "running"}
    /\ reader[r].pc = "iterating"
    /\ LET me == reader[r]
           keys == (DOMAIN hooksInFiles \cup DOMAIN me.stale) \ me.visited
       IN IF keys = {}
          THEN reader' = [reader EXCEPT ![r].pc = "done", ![r].result = <<>>]
          ELSE \E f \in keys :
                 \E hooks \in (IF f \in DOMAIN me.stale
                               THEN me.stale[f].values
                               ELSE {hooksInFiles[f]}) :
                    LET h == HooksMatch(hooks, me.id)
                        mixed == f \in DOMAIN me.stale /\ hooks \notin me.stale[f].whole
                    IN reader' =
                         [reader EXCEPT
                            ![r].visited = @ \cup {f},
                            ![r].mixed = @ \/ mixed,
                            ![r].pc = IF h # <<>> THEN "done" ELSE @,
                            ![r].result = h]
    /\ UNCHANGED mapRace

\* Manager.Get returns to ServeHTTP.
GetReturn(r) ==
    /\ reader[r].pc = "done"
    /\ reader' = [reader EXCEPT ![r] = ReaderIdleState]
    /\ UNCHANGED mapRace

\* The watcher task handles an event; an assignment or delete of a map
\* entry while a handler iterates the map races with that iteration.
WatcherWrites(path, ops) ==
    /\ WatchForFileChange(path, ops)
    /\ LET wrote == last'.outcome = "accepted" \/ last'.op = "remove"
           racing == {r \in Readers : reader[r].pc = "iterating"}
           old == EntryOf(hooksInFiles, path)
           new == EntryOf(hooksInFiles', path)
       IN /\ mapRace' = (mapRace \/ (wrote /\ racing # {}))
          /\ reader' =
               [r \in Readers |->
                  IF wrote /\ r \in racing
                  THEN [reader[r] EXCEPT
                          !.stale = MapPut(@, path,
                                      [values |-> TornValues(old, new),
                                       whole |-> {old, new}])]
                  ELSE reader[r]]

\* The runtime detects the concurrent map access and throws: the process dies.
MapFault ==
    /\ phase = "running"
    /\ mapRace
    /\ phase' = "crashed"
    /\ UNCHANGED <<files, hooksInFiles, disk, watched, last, lastGood, readerVars>>

notReaders == <<ruleVars, signalVars, pipelineVars, execVars, paramVars>>

NextGet ==
    \/ Load /\ UNCHANGED notRegistry
    \/ StartFileWatcher /\ UNCHANGED notRegistry
    \/ \E d \in GetDiskStates : FsChange("a.json", d) /\ UNCHANGED notRegistry
    \/ \E ops \in GetEventOps : WatcherWrites("a.json", ops) /\ UNCHANGED notReaders
    \/ \E r \in Readers, id \in IDs :
          GetStart(r, id) /\ UNCHANGED <<registryVars, notReaders>>
    \/ \E r \in Readers : GetStep(r) /\ UNCHANGED <<registryVars, notReaders>>
    \/ \E r \in Readers : GetReturn(r) /\ UNCHANGED <<registryVars, notReaders>>
    \/ MapFault /\ UNCHANGED notReaders

SpecGet == InitGet /\ [][NextGet]_vars

\* C8: with handlers calling Get while the watcher task reloads or removes a
\* file, no Get reads the registry map while it is being written, and every
\* Get observes for a file its complete sequence from before or from after
\* the write, never a mixture.
C8_GetAtomicWithReload ==
    /\ ~mapRace
    /\ \A r \in Readers : ~reader[r].mixed

-----------------------------------------------------------------------------
(***************************************************************************)
(* SpecSignals: the signal goroutine of setupSignals and Manager.Notify.    *)
(* main hands hooks.Notify to setupSignals; Manager.reloadWatcher, the only *)
(* receiver of notifyChan, is started nowhere (no `go m.reloadWatcher()`,   *)
(* and Manager.Start is not called), so the program has no step that takes  *)
(* from notifyChan.                                                         *)
(***************************************************************************)
MaxSignals == 7

SignalsCapacity == 1
NotifyCapacity == 5

ReloadSignals == {"SIGUSR1", "SIGHUP"}
ExitSignals == {"SIGINT", "SIGTERM"}

InitSignals ==
    /\ signals = <<>>
    /\ sigLoop = "receive"
    /\ notifyChan = 0
    /\ sent = 0
    /\ RulesIdle /\ RegistryIdle /\ ReaderIdle /\ PipelineIdle /\ ExecIdle /\ ParamsIdle

\* A signal is delivered to the process: os/signal sends without blocking,
\* a signal that finds the channel full is dropped.
Signal(sig) ==
    /\ sigLoop # "exited"
    /\ sent < MaxSignals
    /\ sent' = sent + 1
    /\ signals' = IF Len(signals) < SignalsCapacity THEN Append(signals, sig) ELSE signals
    /\ UNCHANGED <<sigLoop, notifyChan>>

\* The signal goroutine: sig := <-signals and the switch on it.
Receive ==
    /\ sigLoop = "receive"
    /\ signals # <<>>
    /\ signals' = Tail(signals)
    /\ sigLoop' = IF Head(signals) \in ReloadSignals THEN "notify" ELSE "exited"
    /\ UNCHANGED <<notifyChan, sent>>

\* Manager.Notify, called on the signal goroutine: the send blocks while the
\* channel is full.
Notify ==
    /\ sigLoop = "notify"
    /\ notifyChan < NotifyCapacity
    /\ notifyChan' = notifyChan + 1
    /\ sigLoop' = "receive"
    /\ UNCHANGED <<signals, sent>>

notSignals == <<ruleVars, registryVars, readerVars, pipelineVars, execVars, paramVars>>

NextSignals ==
    \/ \E sig \in ReloadSignals \cup ExitSignals : Signal(sig) /\ UNCHANGED notSignals
    \/ Receive /\ UNCHANGED notSignals
    \/ Notify /\ UNCHANGED notSignals

SpecSignals == InitSignals /\ [][NextSignals]_vars

\* The scheduler runs the signal goroutine whenever it can take a step.
FairSignals ==
    /\ SpecSignals
    /\ WF_vars(Receive /\ UNCHANGED notSignals)
    /\ WF_vars(Notify /\ UNCHANGED notSignals)

\* C9: every reload request that Notify put into the notification channel
\* is eventually taken out of it (by the dedicated reader, which then runs
\* reloadAllHooks), unless the process exits first.
C9_ReloadRequestsAreTaken ==
    (notifyChan > 0) ~> (notifyChan = 0 \/ sigLoop = "exited")

-----------------------------------------------------------------------------
(***************************************************************************)
(* More claims about the registry (checked under Spec).                     *)
(***************************************************************************)
\* The IDs that only the file `path` defines in the registry `hif`.
OnlyIn(hif, path) ==
    { id \in IDs : /\ path \in DOMAIN hif
                   /\ HooksMatch(hif[path], id) # <<>>
                   /\ OtherHolders(hif, path, id) = {} }

\* The file list without `path`, the other paths in their order.
Without(fs, path) == SelectSeq(fs, LAMBDA f : f # path)

\* C11: removeHooks(path) deletes exactly that path's sequence from the
\* registry mapping and that path from the file list: Get then returns nil
\* for every ID only that file defined, every other file keeps its sequence
\* and its place among the others in the file list, and reloadAllHooks,
\* whatever the disk holds by then, does not bring the path back.
C11_Step ==
    (WatcherStep /\ last'.op = "remove") =>
        LET path == last'.path IN
        /\ DOMAIN hooksInFiles' = DOMAIN hooksInFiles \ {path}
        /\ \A q \in DOMAIN hooksInFiles' : hooksInFiles'[q] = hooksInFiles[q]
        /\ \A i \in DOMAIN files' : files'[i] # path
        /\ files' = Without(files, path)
        /\ \A id \in OnlyIn(hooksInFiles, path) : GetResults(hooksInFiles', id) = {<<>>}
        /\ \A d \in [Paths -> DiskStates] :
              path \notin DOMAIN ReloadAllHooks(files', hooksInFiles', d)

-----------------------------------------------------------------------------
(***************************************************************************)
(* SpecExecutor: one invocation of Executor.Execute, step by step: the      *)
(* goroutine inside execHookCommand, the command's process, the timer of    *)
(* stopProcessWithTimeout with its callback, the 10-second timer set inside *)
(* that callback, and the moment the request's response is written.  Time   *)
(* is counted in seconds; a timer holds the seconds it has left.            *)
(***************************************************************************)
KillDelay == 10

SIGTERM == "SIGTERM"
SIGKILL == "SIGKILL"

\* What happens to one file argument in prepareFileArguments.
FileOutcomes == {"ok", "create-fails", "write-fails", "close-fails"}

ExecFiles ==
    { <<>>, <<"ok">>, <<"write-fails">>, <<"ok", "close-fails">>, <<"create-fails">> }

ExecTimeouts == {0, 2}
ExecModes == {"buffered", "streamed", "detached"}

InitExecutor ==
    /\ exec \in [ timeout : ExecTimeouts, ignoresTerm : BOOLEAN, files : ExecFiles,
                  found : BOOLEAN, starts : BOOLEAN, mode : ExecModes ]
    /\ runPc = "lookup"
    /\ tmp = <<>>
    /\ proc = NoProc
    /\ termTimer = NoTimer
    /\ killTimer = NoTimer
    /\ cbPc = "idle"
    /\ kills = <<>>
    /\ ticks = NoTicks
    /\ responded = FALSE
    /\ RulesIdle /\ RegistryIdle /\ ReaderIdle /\ SignalsIdle /\ PipelineIdle
    /\ ParamsIdle

\* The timer goroutine dereferenced cmd.Process while it was nil: the panic
\* of a goroutine nobody recovers ends the daemon.
Crashed == cbPc = "panicked"

TimerDue_WhenArmed(t) == t.state = "armed"

\* A timer fires when its time is up.
TimerDue(t) == t.state = "armed" /\ t.left = 0

Stopped(t) == IF t.state = "armed" THEN [t EXCEPT !.state = "stopped"] ELSE t

\* execHookCommand: checkCommandExistsAndValid.
Lookup ==
    /\ ~Crashed
    /\ runPc = "lookup"
    /\ runPc' = IF exec.found THEN "prepare" ELSE "returned"
    /\ UNCHANGED <<exec, tmp, proc, termTimer, killTimer, cbPc, kills, ticks, responded>>

\* prepareFileArguments, one round of its loop, and its end.  os.CreateTemp
\* failing leaves tmpfile nil and tmpfile.Name() panics; a failed Write or
\* Close goes on to the next file without setting files[i].File.  After the
\* loop execHookCommand defers cleanupFileArguments.
PrepareFile ==
    /\ ~Crashed
    /\ runPc = "prepare"
    /\ IF Len(tmp) = Len(exec.files)
       THEN runPc' = "arm" /\ tmp' = tmp
       ELSE LET outcome == exec.files[Len(tmp) + 1] IN
            IF outcome = "create-fails"
            THEN runPc' = "panicked" /\ tmp' = tmp
            ELSE /\ runPc' = runPc
                 /\ tmp' = Append(tmp, [state |-> "exists", tracked |-> outcome = "ok"])
    /\ UNCHANGED <<exec, proc, termTimer, killTimer, cbPc, kills, ticks, responded>>

\* execHookCommand: with a timeout, stopProcessWithTimeout sets the timer
\* (before the command is started) and its Stop is deferred.
Arm ==
    /\ ~Crashed
    /\ runPc = "arm"
    /\ runPc' = "start"
    /\ termTimer' = IF exec.timeout > 0
                    THEN [state |-> "armed", left |-> exec.timeout]
                    ELSE termTimer
    /\ UNCHANGED <<exec, tmp, proc, killTimer, cbPc, kills, ticks, responded>>

\* cmd.Run, its Start: the process exists from here on, or Run returns the
\* error of a command that could not be launched.
Start ==
    /\ ~Crashed
    /\ runPc = "start"
    /\ IF exec.starts
       THEN runPc' = "wait" /\ proc' = [proc EXCEPT !.state = "running"]
       ELSE runPc' = "stop-timer" /\ proc' = proc
    /\ UNCHANGED <<exec, tmp, termTimer, killTimer, cbPc, kills, ticks, responded>>

\* cmd.Run, its Wait, returns: the process has exited (and the copying of
\* its output has ended, which descendants holding the pipe can delay).
RunReturns ==
    /\ ~Crashed
    /\ runPc = "wait"
    /\ proc.state = "exited"
    /\ runPc' = "stop-timer"
    /\ UNCHANGED <<exec, tmp, proc, termTimer, killTimer, cbPc, kills, ticks, responded>>

\* The deferred terminationTimer.Stop(); it does nothing to a timer that
\* has fired.
StopTimer ==
    /\ ~Crashed
    /\ runPc = "stop-timer"
    /\ runPc' = "cleanup"
    /\ termTimer' = Stopped(termTimer)
    /\ UNCHANGED <<exec, tmp, proc, killTimer, cbPc, kills, ticks, responded>>

\* The deferred cleanupFileArguments: removes the files whose File is set.
CleanupFileArguments ==
    /\ ~Crashed
    /\ runPc = "cleanup"
    /\ runPc' = "returned"
    /\ tmp' = [i \in DOMAIN tmp |->
                 IF tmp[i].tracked THEN [tmp[i] EXCEPT !.state = "removed"] ELSE tmp[i]]
    /\ UNCHANGED <<exec, proc, termTimer, killTimer, cbPc, kills, ticks, responded>>

\* The process ends: `early` records that it did before the timeout was up,
\* `earlyKill` that it did after SIGTERM and before the 10 seconds were up.
Exited ==
    [ proc EXCEPT !.state = "exited",
                  !.early = termTimer.state = "armed" /\ termTimer.left > 0,
                  !.earlyKill = killTimer.state = "armed" /\ killTimer.left > 0 ]

\* The command exits of its own accord.
ProcExit ==
    /\ ~Crashed
    /\ proc.state = "running"
    /\ proc' = Exited
    /\ UNCHANGED <<exec, runPc, tmp, termTimer, killTimer, cbPc, kills, ticks, responded>>

\* The command, not ignoring SIGTERM, ends because of it.
ProcTerminated ==
    /\ ~Crashed
    /\ proc.state = "running"
    /\ proc.gotTerm
    /\ ~exec.ignoresTerm
    /\ proc' = Exited
    /\ UNCHANGED <<exec, runPc, tmp, termTimer, killTimer, cbPc, kills, ticks, responded>>

Sent(sig) ==
    [ sig |-> sig, sinceArm |-> ticks.sinceArm, sinceTerm |-> ticks.sinceTerm,
      alive |-> proc.state = "running" ]

\* The termination timer fires: its callback starts on a goroutine of its own.
TermFire ==
    /\ ~Crashed
    /\ TimerDue(termTimer)
    /\ termTimer' = [termTimer EXCEPT !.state = "fired"]
    /\ cbPc' = "sigterm"
    /\ UNCHANGED <<exec, runPc, tmp, proc, killTimer, kills, ticks, responded>>

\* The callback: sendKillSignal(e, cmd.Process.Pid, SIGTERM), that is
\* kill(-pid, SIGTERM); cmd.Process is nil while the command has not been
\* started.
SendTerm ==
    /\ cbPc = "sigterm"
    /\ IF proc.state = "none"
       THEN cbPc' = "panicked" /\ UNCHANGED <<kills, proc>>
       ELSE /\ cbPc' = "arm-kill"
            /\ kills' = Append(kills, Sent(SIGTERM))
            /\ proc' = IF proc.state = "running" THEN [proc EXCEPT !.gotTerm = TRUE] ELSE proc
    /\ UNCHANGED <<exec, runPc, tmp, termTimer, killTimer, ticks, responded>>

\* The callback: killingTimer := time.AfterFunc(10 s, ...), Stop deferred.
ArmKill ==
    /\ cbPc = "arm-kill"
    /\ cbPc' = "waiting"
    /\ killTimer' = [state |-> "armed", left |-> KillDelay]
    /\ UNCHANGED <<exec, runPc, tmp, proc, termTimer, kills, ticks, responded>>

\* The callback: cmd.Process.Wait() returns once the process has exited,
\* and the deferred killingTimer.Stop() runs.
CallbackReturns ==
    /\ cbPc = "waiting"
    /\ proc.state = "exited"
    /\ cbPc' = "done"
    /\ killTimer' = Stopped(killTimer)
    /\ UNCHANGED <<exec, runPc, tmp, proc, termTimer, kills, ticks, responded>>

\* The 10-second timer fires: kill(-pid, SIGKILL), which no process survives.
KillFire ==
    /\ TimerDue(killTimer)
    /\ killTimer' = [killTimer EXCEPT !.state = "fired"]
    /\ kills' = Append(kills, Sent(SIGKILL))
    /\ proc' = IF proc.state = "running" THEN [proc EXCEPT !.state = "exited"] ELSE proc
    /\ UNCHANGED <<exec, runPc, tmp, termTimer, cbPc, ticks, responded>>

CountDown(t) == IF t.state = "armed" THEN [t EXCEPT !.left = @ - 1] ELSE t

\* A second passes; a timer whose time is up fires before the next one does.
Tick ==
    /\ ~Crashed
    /\ ~TimerDue(termTimer)
    /\ ~TimerDue(killTimer)
    /\ termTimer' = CountDown(termTimer)
    /\ killTimer' = CountDown(killTimer)
    /\ ticks' = [ sinceArm |-> IF termTimer.state = "armed"
                               THEN ticks.sinceArm + 1 ELSE ticks.sinceArm,
                  sinceTerm |-> IF killTimer.state = "armed"
                                THEN ticks.sinceTerm + 1 ELSE ticks.sinceTerm ]
    /\ UNCHANGED <<exec, runPc, tmp, proc, cbPc, kills, responded>>

\* Handle writes the response: after Execute returned in the buffered and
\* the streamed mode (the trailer), without waiting for the goroutine that
\* runs Execute in the detached mode.
Respond ==
    /\ ~Crashed
    /\ ~responded
    /\ exec.mode = "detached" \/ runPc = "returned"
    /\ responded' = TRUE
    /\ UNCHANGED <<exec, runPc, tmp, proc, termTimer, killTimer, cbPc, kills, ticks>>

notExec == <<ruleVars, registryVars, readerVars, signalVars, pipelineVars, paramVars>>

NextExecutor ==
    \/ Lookup /\ UNCHANGED notExec
    \/ PrepareFile /\ UNCHANGED notExec
    \/ Arm /\ UNCHANGED notExec
    \/ Start /\ UNCHANGED notExec
    \/ RunReturns /\ UNCHANGED notExec
    \/ StopTimer /\ UNCHANGED notExec
    \/ CleanupFileArguments /\ UNCHANGED notExec
    \/ ProcExit /\ UNCHANGED notExec
    \/ ProcTerminated /\ UNCHANGED notExec
    \/ TermFire /\ UNCHANGED notExec
    \/ SendTerm /\ UNCHANGED notExec
    \/ ArmKill /\ UNCHANGED notExec
    \/ CallbackReturns /\ UNCHANGED notExec
    \/ KillFire /\ UNCHANGED notExec
    \/ Tick /\ UNCHANGED notExec
    \/ Respond /\ UNCHANGED notExec

SpecExecutor == InitExecutor /\ [][NextExecutor]_vars

\* Time passes, timers fire when due, goroutines that can take a step are
\* scheduled, and a process that honours SIGTERM ends after it.
FairExecutor ==
    /\ SpecExecutor
    /\ WF_vars(Tick /\ UNCHANGED notExec)
    /\ WF_vars(TermFire /\ UNCHANGED notExec)
    /\ WF_vars(SendTerm /\ UNCHANGED notExec)
    /\ WF_vars(ArmKill /\ UNCHANGED notExec)
    /\ WF_vars(KillFire /\ UNCHANGED notExec)
    /\ WF_vars(CallbackReturns /\ UNCHANGED notExec)
    /\ WF_vars(ProcTerminated /\ UNCHANGED notExec)
    /\ WF_vars(Start /\ UNCHANGED notExec)
    /\ WF_vars(RunReturns /\ UNCHANGED notExec)
    /\ WF_vars(StopTimer /\ UNCHANGED notExec)

-----------------------------------------------------------------------------
(***************************************************************************)
(* Claims about the executor (checked under SpecExecutor / FairExecutor).   *)
(***************************************************************************)
WasSent(sig) == \E i \in DOMAIN kills : kills[i].sig = sig

\* The command is still running and the timeout has elapsed.
RunningAtTimeout == proc.state = "running" /\ termTimer.state = "fired"

SignalsInOrder ==
    /\ Len(kills) <= 2
    /\ \A i \in DOMAIN kills :
          /\ kills[i].sig = SIGTERM => kills[i].sinceArm >= exec.timeout
          /\ kills[i].sig = SIGKILL =>
                /\ \E j \in 1..(i - 1) : kills[j].sig = SIGTERM
                /\ kills[i].sinceTerm >= KillDelay

\* C12: for a hook with timeout > 0 whose command is still running when the
\* timeout elapses, SIGTERM is sent to the process group then and not
\* before; SIGKILL is sent if the command is still running 10 seconds after
\* that (unless it exits at that very moment), never earlier and never
\* before SIGTERM; the command is eventually terminated.
C12_TimeoutEscalation ==
    /\ [](exec.timeout > 0 => SignalsInOrder)
    /\ (RunningAtTimeout ~> WasSent(SIGTERM))
    /\ ((proc.state = "running" /\ TimerDue(killTimer))
            ~> (WasSent(SIGKILL) \/ proc.state = "exited"))
    /\ (RunningAtTimeout ~> proc.state = "exited")

\* C12 witness: the command ignored the SIGTERM sent when its 2 seconds
\* were up and was ended by the SIGKILL sent 10 seconds later.
C12_Witness ==
    /\ exec.timeout = 2
    /\ exec.ignoresTerm
    /\ Len(kills) = 2
    /\ kills[1].sig = SIGTERM /\ kills[1].alive /\ kills[1].sinceArm = 2
    /\ kills[2].sig = SIGKILL /\ kills[2].alive /\ kills[2].sinceTerm = KillDelay
    /\ proc.state = "exited"

\* C13: if the command exits before the timeout elapses, neither SIGTERM nor
\* SIGKILL is ever sent to its process group; if it exits after SIGTERM and
\* before the 10 seconds are up, SIGKILL is never sent.
C13_NoSignalAfterExit ==
    /\ proc.early => kills = <<>>
    /\ proc.earlyKill => ~WasSent(SIGKILL)

\* C14: when Execute has returned, every temporary file created for a file
\* argument has been removed, whatever the exit path.
C14_TempFilesRemovedOnReturn ==
    runPc = "returned" => \A i \in DOMAIN tmp : tmp[i].state # "exists"

\* C15: in every response mode, once the response of the request has been
\* written, no temporary file created for its command exists.
C15_TempFilesRemovedBeforeResponse ==
    responded => \A i \in DOMAIN tmp : tmp[i].state # "exists"


-----------------------------------------------------------------------------
\* The response of a triggered hook: hooks without a trigger rule in every
\* combination of the output flags, and two whose rule some requests do not
\* satisfy, served with well-formed and malformed bodies, flushable and
\* plain writers, and every outcome of the command.

ResponseCodes == {0, 201, 299}
MismatchCodes == {0, 400, 299}
ResponseCommands == CommandOutcomes \cup {"exit-2", "killed"}

ResponseHooks ==
    { [PipelineHook EXCEPT !.HTTPMethods = <<>>,
                           !.ResponseMessage = "ok",
                           !.StreamCommandOutput = st,
                           !.CaptureCommandOutput = cap,
                           !.CaptureCommandOutputOnError = coe,
                           !.SuccessHttpResponseCode = sc] :
        st \in BOOLEAN, cap \in BOOLEAN, coe \in BOOLEAN, sc \in ResponseCodes }
    \cup
    { [PipelineHook EXCEPT !.HTTPMethods = <<>>,
                           !.TriggerRule = ValMaster,
                           !.TriggerRuleMismatchHttpResponseCode = mc,
                           !.StreamCommandOutput = st,
                           !.CaptureCommandOutput = ~st] :
        st \in BOOLEAN, mc \in MismatchCodes }

InitResponse ==
    /\ phase = "init"
    /\ files = <<"a.json">>
    /\ hooksInFiles = <<>>
    /\ \E h \in ResponseHooks :
          disk = [f \in Paths |-> IF f = "a.json" THEN FileOk(<<h>>) ELSE FileMissing]
    /\ watched = {}
    /\ last = NoLast
    /\ lastGood = <<>>
    /\ opts = NoOpts
    /\ response = NoResponse
    /\ runs = 0
    /\ RulesIdle /\ ReaderIdle /\ SignalsIdle /\ ExecIdle /\ ParamsIdle

NextResponse ==
    \/ Load /\ UNCHANGED notRegistry
    \/ \E req \in PipelineRequests, content \in PipelineContents,
          flushable \in BOOLEAN, command \in ResponseCommands :
          ServeHTTP("x", MethodPOST, req, content, flushable, command)

SpecResponse == InitResponse /\ [][NextResponse]_vars

\* What the client receives of a sequence of writes: net/http sends the
\* status of the first WriteHeader, or 200 when a body write comes first, and
\* the body writes joined.
RECURSIVE StatusSent(_)
StatusSent(events) ==
    IF events = <<>> THEN StatusOK
    ELSE IF Head(events).w = "header" THEN Head(events).code
    ELSE IF Head(events).w = "body" THEN StatusOK
    ELSE StatusSent(Tail(events))

RECURSIVE BodySent(_)
BodySent(events) ==
    IF events = <<>> THEN ""
    ELSE (IF Head(events).w = "body" THEN Head(events).text ELSE "")
            \o BodySent(Tail(events))

\* The status a configured code stands for: 0 and codes without a status
\* text are 200.
StatusFor(code) == IF code = 0 \/ ~StatusTextKnown(code) THEN StatusOK ELSE code

CleanExit == response.command = "exit-0"

\* The hook the request was served with.
Served == response.hook[1]

\* C16: in buffered mode the response status is successHttpResponseCode when
\* the command exits cleanly and 500 otherwise (non-zero exit, launch
\* failure, termination); the body is the command's output on clean exit and
\* on failure with captureCommandOutputOnError, and the fixed error string on
\* failure otherwise.
C16_BufferedResponse ==
    response.kind = "buffered" =>
        LET h == Served
            x == Execute(response.command)
        IN /\ StatusSent(response.events) =
                 (IF CleanExit THEN StatusFor(h.SuccessHttpResponseCode)
                  ELSE StatusInternalServerError)
           /\ BodySent(response.events) =
                 (IF CleanExit \/ h.CaptureCommandOutputOnError
                  THEN Join(x.output) ELSE MsgExecError)

\* Where the handler's log holds a given kind of entry.
At(events, w) == { i \in DOMAIN events : events[i].w = w }

ExitCodes == -1 .. 2
IsTrailer(e) == e.w = "body" /\ \E c \in ExitCodes : e.text = Trailer(c)

\* C17: in streamed mode the status 200 is written before the command is
\* started, every chunk of the command's output is written to the response
\* and flushed in the order it was produced, and the trailer is written only
\* after the command has exited and after all of its output.
C17_StreamedOrder ==
    response.kind = "streamed" =>
        LET ev == response.events
            x == Execute(response.command)
            n == Len(ev)
        IN /\ StatusSent(ev) = StatusOK
           /\ ev[1] = WriteHeader(StatusOK)[1]
           /\ \A i \in At(ev, "start") : i > 1
           /\ \A i \in At(ev, "start"), j \in At(ev, "exit") :
                 i < j /\ SubSeq(ev, i + 1, j - 1) = StreamChunks(x.output)
           /\ n >= 3 /\ IsTrailer(ev[n - 1]) /\ ev[n] = Flush[1]
           /\ \A j \in At(ev, "exit") : j < n - 1
           /\ \A j \in 1 .. n - 2 : ~IsTrailer(ev[j])
           /\ x.started <=> At(ev, "start") # {}

\* The last body write of the response.
LastBody(events) ==
    LET b == At(events, "body")
    IN events[CHOOSE i \in b : \A j \in b : j <= i].text

\* C18: after the command exits in streamed mode, the trailer written to
\* the response is \n---\n<exitCode>\n with the exit code the command
\* returned (0 on clean exit).
C18_TrailerHasExitCode ==
    LET x == Execute(response.command)
    IN (response.kind = "streamed" /\ x.started) =>
          LastBody(response.events) = "\n---\n" \o ToString(x.code) \o "\n"

\* What Handle would have written had the command ended as `command`.
EventsWith(command) ==
    Handle(Served, response.method, response.req, response.content,
           response.flushable, command, opts).events

\* C19: in detached mode (neither streamCommandOutput nor
\* captureCommandOutput set) the response is successHttpResponseCode with
\* responseMessage, it does not wait for the command, and it is the same
\* whether the command succeeds, fails, is ended at its timeout or cannot be
\* launched.
C19_DetachedResponse ==
    response.kind = "detached" =>
        /\ ~Served.StreamCommandOutput /\ ~Served.CaptureCommandOutput
        /\ StatusSent(response.events) = StatusFor(Served.SuccessHttpResponseCode)
        /\ BodySent(response.events) = Served.ResponseMessage
        /\ At(response.events, "start") = {} /\ At(response.events, "exit") = {}
        /\ \A c \in ResponseCommands : EventsWith(c) = response.events

\* The request passed the method gate and satisfied the hook's trigger rule.
Triggered ==
    /\ response.hook # <<>>
    /\ IsHTTPMethodAllowed(Served, response.method, opts)
    /\ \/ Served.TriggerRule = NilRule
       \/ RuleVerdict.err = ErrNil /\ RuleVerdict.res

ModeKinds == {"streamed", "buffered", "detached"}

\* C20: a triggered hook is answered in the streamed mode when
\* streamCommandOutput is set and the writer is flushable; in the buffered
\* mode when streamCommandOutput is set and the writer is not flushable, or
\* captureCommandOutput is set without streamCommandOutput; in the detached
\* mode otherwise. A triggered request enters exactly one mode and executes
\* the command exactly once; a request that is not triggered enters none.
C20_ResponseMode ==
    LET st == Served.StreamCommandOutput
        cap == Served.CaptureCommandOutput
        fl == response.flushable
    IN /\ Triggered =>
            /\ response.kind \in ModeKinds
            /\ response.kind = "streamed" <=> (st /\ fl)
            /\ response.kind = "buffered" <=> ((st /\ ~fl) \/ (cap /\ ~st))
            /\ response.kind = "detached" <=> (~st /\ ~cap)
            /\ response.executes = 1
            /\ runs = (IF response.command = "not-found" THEN 0 ELSE 1)
            /\ Cardinality(At(response.events, "start")) =
                    (IF response.kind = "detached" THEN 0 ELSE runs)
       /\ (response.kind # "none" /\ ~Triggered) =>
            /\ response.kind \notin ModeKinds
            /\ response.executes = 0 /\ runs = 0

\* C20 witness: a hook with both flags set was served on a writer that
\* cannot flush, in the buffered mode, and its command ran once.
C20_Witness ==
    /\ Triggered
    /\ Served.StreamCommandOutput /\ Served.CaptureCommandOutput
    /\ ~response.flushable
    /\ response.kind = "buffered"
    /\ response.executes = 1 /\ runs = 1

\* C21: when the command of a triggered hook cannot be found or launched,
\* the response status is 500 and the body is the fixed error message,
\* or the command's output when captureCommandOutputOnError selects it.
C21_LaunchFailureIs500 ==
    (Triggered /\ response.command = "not-found") =>
        /\ StatusSent(response.events) = StatusInternalServerError
        /\ BodySent(response.events) =
              (IF Served.CaptureCommandOutputOnError
               THEN Join(Execute(response.command).output)
               ELSE MsgExecError)

-----------------------------------------------------------------------------
\* More claims about the method gate and the rule verdict of a request.

\* The allow-list in force for a hook: its own, else the daemon's.
EffectiveMethods(h, o) ==
    IF h.HTTPMethods # <<>> THEN h.HTTPMethods ELSE o.defaultAllowedMethods

\* Membership regardless of case and of surrounding blanks.
SameMethod(a, b) == ToUpper(TrimSpace(a)) = ToUpper(TrimSpace(b))

\* C22: a request to an existing hook is answered 405 exactly when its
\* method is not in the effective allow-list (the hook's httpMethods if
\* non-empty, else the daemon's default list if non-empty, else every
\* method), membership being case-insensitive and ignoring surrounding
\* whitespace.
C22_MethodGate ==
    response.hook # <<>> =>
        LET list == EffectiveMethods(Served, opts)
        IN Is405 <=>
              (list # <<>> /\ ~\E i \in DOMAIN list : SameMethod(list[i], response.method))

\* C23: when the trigger rule does not match, the response status is
\* triggerRuleMismatchHttpResponseCode, with 0 and every code the HTTP
\* library does not know standing for 200, and the body is the fixed
\* rule-mismatch message.
C23_MismatchResponse ==
    response.kind = "mismatch" =>
        /\ StatusSent(response.events) =
              StatusFor(Served.TriggerRuleMismatchHttpResponseCode)
        /\ BodySent(response.events) = MsgMismatch

\* Every child of the top node, taken on its own, ends with an error the
\* `or` node suppresses.
AllChildrenSuppressed ==
    /\ Children # {}
    /\ \A i \in Children :
          ChildResult(i).err # ErrNil /\ Suppressible(ChildResult(i).err)

\* C24: an `or` node all of whose children fail with suppressible errors
\* (ParameterNodeError, or SignatureError while allowSignatureErrors is set)
\* evaluates to (false, nil), and a hook whose trigger rule is such a node
\* is answered as a rule mismatch, not as an error.
C24_OrAllSuppressedIsMismatch ==
    (OrDone /\ AllChildrenSuppressed) =>
        /\ ~ruleEval.res /\ ruleEval.err = ErrNil
        /\ ~trigger.ok /\ trigger.err = ErrNil

\* C25: a rule node in which none of and, or, not, match is set evaluates
\* to (false, nil) wherever it stands: as the trigger rule it is a
\* mismatch; under `not` it gives true; under `and` it ends the node with
\* false; under `or` it counts as a false child and the next one is tried.
C25_EmptyNodeIsFalse ==
    rulePc = "done" =>
        /\ rule = EmptyRule =>
              /\ ~ruleEval.res /\ ruleEval.err = ErrNil
              /\ ~trigger.ok /\ trigger.err = ErrNil
        /\ rule.kind \in {"and", "or", "not"} =>
              \A i \in Children :
                 (rule.children[i] = EmptyRule /\ Evaluated(i)) =>
                    /\ ~ChildResult(i).res /\ ChildResult(i).err = ErrNil
                    /\ rule.kind = "not" => (ruleEval.res /\ ruleEval.err = ErrNil)
                    /\ rule.kind = "and" =>
                          /\ ~ruleEval.res /\ ruleEval.err = ErrNil
                          /\ \A j \in Children : j > i => ~Evaluated(j)
                    /\ rule.kind = "or" =>
                          IF i < Len(rule.children)
                          THEN Evaluated(i + 1)
                          ELSE ~ruleEval.res /\ ruleEval.err = ErrNil

\* C25 witness: an `or` of the empty node and a value predicate that the
\* request satisfies passed, on its second child.
C25_Witness ==
    /\ rulePc = "done"
    /\ rule = OrOf(<<EmptyRule, ValMaster>>)
    /\ Evaluated(1) /\ Evaluated(2)
    /\ ~ChildResult(1).res
    /\ ruleEval.res /\ trigger.ok

\* C26: a hook without a trigger rule (the empty rule tree) is triggered by
\* every request that passes the method gate, whatever the request
\* carries; a request that does not pass the gate is answered 405.
C26_NoRuleAlwaysTriggers ==
    (response.hook # <<>> /\ Served.TriggerRule = NilRule) =>
        IF IsHTTPMethodAllowed(Served, response.method, opts)
        THEN /\ response.kind \in ModeKinds
             /\ response.evaluated /\ response.executes = 1
             /\ ~IsMismatch
        ELSE Is405 /\ response.executes = 0

\* C26 witness: the hook without a rule was triggered by a request with
\* neither signature header nor payload, whose body did not even parse.
C26_Witness ==
    /\ response.hook # <<>>
    /\ Served.TriggerRule = NilRule
    /\ Served.HTTPMethods = <<EntryPost>>
    /\ response.method = MethodPOST
    /\ response.req.Headers = <<>> /\ response.req.Payload = <<>>
    /\ response.content = "multipart-malformed"
    /\ response.kind = "detached"
    /\ response.executes = 1 /\ runs = 1

-----------------------------------------------------------------------------
\* GetParameter on its own: payload trees and paths.

\* The keys, values and paths tried.
Keys == {KeyA, KeyAB}
Scalars == {Str("master"), Null}

MapsOver(values) == {MapOf(m) : m \in UNION {[K -> values] : K \in SUBSET Keys}}
SeqsOver(values) == {SeqOf(s) : s \in {<<>>} \cup {<<v>> : v \in values}}

Level1 == Scalars \cup MapsOver(Scalars) \cup SeqsOver(Scalars)

\* {commits: [{branch: master}]}
Commits ==
    MapOf([k \in {<<"commits">>} |->
            SeqOf(<<MapOf([b \in {<<"branch">>} |-> Str("master")])>>)])

Trees == Level1 \cup MapsOver(Level1) \cup SeqsOver(Level1) \cup {Commits}

MaxSegments == 3
Segments == {"a", "b", "0", "1", MaxUint64}
PathsTried ==
    UNION {[1..n -> Segments] : n \in 1..MaxSegments}
      \cup {<<"commits", "0", "branch">>, <<"commits", MaxUint64, "branch">>}

InitParameter ==
    /\ params \in Trees
    /\ pin \in PathsTried
    /\ pout = <<>>
    /\ ppc = "ready"
    /\ RulesIdle /\ RegistryIdle /\ ReaderIdle /\ SignalsIdle /\ PipelineIdle /\ ExecIdle

\* One call of GetParameter(path, payload).
CallGetParameter ==
    /\ ppc = "ready"
    /\ ppc' = "done"
    /\ pout' = GetParameter(pin, params)
    /\ UNCHANGED <<params, pin>>

notParams == <<ruleVars, registryVars, readerVars, signalVars, pipelineVars, execVars>>

NextParameter == CallGetParameter /\ UNCHANGED notParams

SpecParameter == InitParameter /\ [][NextParameter]_vars

\* The segment is a decimal index into a sequence of n elements.
IndexWithin(seg, n) == (seg = "0" /\ n > 0) \/ (seg = "1" /\ n > 1)
IndexOf(seg) == IF seg = "0" THEN 1 ELSE 2

\* The walk as it is described: at a mapping the whole remaining path is
\* tried as a key, then its first segment; at a sequence the first segment
\* is an index; a missing key and an unparseable or out-of-range index are
\* a ParameterNodeError.  For a node that is neither, only a failure is
\* asked for.
RECURSIVE Walk(_, _)
Walk(s, p) ==
    CASE p.t = "map" ->
            IF s \in DOMAIN p.m THEN Found(p.m[s])
            ELSE IF <<Head(s)>> \notin DOMAIN p.m THEN Failed(ErrParameterNode)
            ELSE IF Len(s) = 1 THEN Found(p.m[<<Head(s)>>])
            ELSE Walk(Tail(s), p.m[<<Head(s)>>])
      [] p.t = "seq" ->
            IF ~IndexWithin(Head(s), Len(p.s)) THEN Failed(ErrParameterNode)
            ELSE IF Len(s) = 1 THEN Found(p.s[IndexOf(Head(s))])
            ELSE Walk(Tail(s), p.s[IndexOf(Head(s))])
      [] OTHER -> Failed("some error")

\* C28: GetParameter(path, payload) returns the value found by the walk
\* (literal key first, then the segment before the first dot; a decimal
\* index within range at a sequence) and fails with ParameterNodeError when
\* a key is missing or an index is unparseable or out of range;
\* commits.0.branch over {commits: [{branch: master}]} yields master.
C28_GetParameterWalk ==
    ppc = "done" =>
        LET w == Walk(pin, params)
        IN /\ IF w.err = "some error"
              THEN pout.err \notin {ErrNil, ErrPanic}
              ELSE pout = w
           /\ (params = Commits /\ pin = <<"commits", "0", "branch">>) =>
                 pout = Found(Str("master"))

-----------------------------------------------------------------------------
\* The leaf predicates on requests that hold mappings of values: one
\* predicate, evaluated on its own and as the first child of an `or` whose
\* second child is always true.

MatchHeaders == {MapOf(<<>>), MapOf([k \in {KeySig} |-> Str(HMAC(Secret1, Body))])}
MatchQueries == {MapOf(<<>>), MapOf([k \in {KeyA} |-> Str("master")])}
MatchPayloads == MapsOver(Level1)

MatchRequests ==
    [ Headers : MatchHeaders, Query : MatchQueries, Payload : MatchPayloads,
      Body : {Body}, Method : {"POST"}, RemoteAddr : {"127.0.0.1:8080"},
      AllowSignatureErrors : {FALSE} ]

MatchArgs ==
    {Arg(src, KeyA) : src \in {"header", "url", "query", "payload", "string", "headers"}}
      \cup {Arg("payload", n) : n \in {KeyAB, <<"a", "0">>, <<"a", MaxUint64>>}}
      \cup {Arg("header", <<"x-sig">>), Arg("request", <<"method">>),
            Arg("request", <<"uri">>), Arg("raw-request-body", <<"">>)}

MatchRules ==
    {Match(MatchValue, "", "master", a) : a \in MatchArgs}
      \cup {MatchRegexOf(".*", a) : a \in MatchArgs}
      \cup {Match(t, Secret1, "", a) : t \in {MatchHMACSHA1, MatchHashSHA256}, a \in MatchArgs}

\* A predicate that is true of every request.
Always == LeafRule(Match(MatchValue, "", "yes", Arg("string", <<"yes">>)))

InitMatch ==
    /\ params \in MatchRequests
    /\ pin \in MatchRules
    /\ pout = <<>>
    /\ ppc = "ready"
    /\ RulesIdle /\ RegistryIdle /\ ReaderIdle /\ SignalsIdle /\ PipelineIdle /\ ExecIdle

\* MatchRule.Evaluate, and OrRule.Evaluate over the predicate and Always.
CallMatchEvaluate ==
    /\ ppc = "ready"
    /\ ppc' = "done"
    /\ pout' = [ arg |-> ArgumentGet(pin.Parameter, params),
                 leaf |-> MatchRuleEvaluate(pin, params),
                 or |-> RulesEvaluate(OrOf(<<LeafRule(pin), Always>>), params, <<>>) ]
    /\ UNCHANGED <<params, pin>>

NextMatch == CallMatchEvaluate /\ UNCHANGED notParams

SpecMatch == InitMatch /\ [][NextMatch]_vars

\* C27: for every leaf predicate that consumes a request parameter (value,
\* regex, payload-hmac-*, payload-hash-*), whenever the parameter cannot be
\* resolved the predicate returns false with an error recognised as
\* ParameterNodeError, so that a surrounding `or` goes on to its next child.
C27_UnresolvedIsParameterNodeError ==
    (ppc = "done" /\ pout.arg.err # ErrNil) =>
        /\ ~pout.leaf.res
        /\ IsParameterNodeError(pout.leaf.err)
        /\ <<2>> \in Range(pout.or.trace)
        /\ pout.or.res /\ pout.or.err = ErrNil

-----------------------------------------------------------------------------
\* Hook.ParseJSONParameters: the entries of parse-parameters-as-json applied
\* to a request whose values may be JSON texts.

\* The mappings a JSON text of the model may hold.
JSONObjects ==
    {MapOf(<<>>), MapOf([k \in {<<"b">>} |-> Str("master")]),
     MapOf([k \in {<<"b">>} |-> SeqOf(<<Str("master")>>)])}

\* json.Decoder.Decode into a map[string]interface{}: the text of an object
\* gives its mapping, the text null gives the nil map and no error, any
\* other text is an error.
Decode(text) ==
    IF text = "null" THEN [val |-> MapOf(<<>>), err |-> FALSE]
    ELSE IF \E o \in JSONObjects : Marshal(o) = text
    THEN [val |-> CHOOSE o \in JSONObjects : Marshal(o) = text, err |-> FALSE]
    ELSE [val |-> Null, err |-> TRUE]

Replaced(p, ok) == [p |-> p, ok |-> ok, panic |-> FALSE]
Panicked(p) == [p |-> p, ok |-> FALSE, panic |-> TRUE]

\* ReplaceParameter(s, params, value); ptr tells that params is the pointer
\* to a map, as in the call of ParseJSONParameters, and not a map or any
\* other value, as in the recursive calls.  A type assertion on a value of
\* another type is a run-time panic.
RECURSIVE ReplaceParameter(_, _, _, _)
ReplaceParameter(s, p, ptr, value) ==
    IF ~ptr /\ p.t = "null" THEN Replaced(p, FALSE)
    ELSE IF ~ptr /\ p.t = "seq"
    THEN IF Len(p.s) > 0 /\ Len(s) > 1
         THEN LET idx == ParseUint(Head(s))
                  at == IndexSlice(p.s, idx)
              IN IF idx.err \/ Len(p.s) <= idx.int THEN Replaced(p, FALSE)
                 ELSE IF at = <<>> THEN Panicked(p)
                 ELSE LET r == ReplaceParameter(Tail(s), at[1], FALSE, value)
                      IN [r EXCEPT !.p = p]
         ELSE Replaced(p, FALSE)
    ELSE IF Len(s) > 1
    THEN IF ptr \/ p.t # "map" THEN Panicked(p)
         ELSE IF <<Head(s)>> \in DOMAIN p.m
         THEN LET r == ReplaceParameter(Tail(s), p.m[<<Head(s)>>], FALSE, value)
              IN [r EXCEPT !.p = p]
         ELSE Replaced(p, FALSE)
    ELSE IF ~ptr THEN Panicked(p)
    ELSE IF s \in DOMAIN p.m
    THEN Replaced(MapOf([p.m EXCEPT ![s] = value]), TRUE)
    ELSE Replaced(p, FALSE)

SubstSources == {"header", "payload", "url", "query"}

\* The field of the request an entry's source names.
SourceField(source) ==
    CASE source = "header" -> "Headers"
      [] source = "payload" -> "Payload"
      [] OTHER -> "Query"

\* ParseJSONParameters, the body of its loop for one entry: the request
\* after it, the number of errors it added, and whether it panicked.
ParseJSONParameter(arg, req) ==
    LET got == ArgumentGetIn(arg, req)
        dec == Decode(got.val)
        key == IF arg.Source = "header" THEN CanonicalMIMEHeaderKey(arg.Name) ELSE arg.Name
    IN IF got.err = ErrPanic THEN [req |-> req, errs |-> 0, panic |-> TRUE]
       ELSE IF got.err # ErrNil \/ dec.err THEN [req |-> req, errs |-> 1, panic |-> FALSE]
       ELSE IF arg.Source \notin SubstSources THEN [req |-> req, errs |-> 1, panic |-> FALSE]
       ELSE LET f == SourceField(arg.Source)
                r == ReplaceParameter(key, req[f], TRUE, dec.val)
            IN [req |-> [req EXCEPT ![f] = r.p], errs |-> 0, panic |-> r.panic]

\* Hook.ParseJSONParameters: the loop; a panic ends it.
RECURSIVE ParseJSONParameters(_, _, _)
ParseJSONParameters(args, req, errs) ==
    IF args = <<>> THEN [req |-> req, errs |-> errs, panic |-> FALSE]
    ELSE LET r == ParseJSONParameter(Head(args), req)
         IN IF r.panic THEN [req |-> r.req, errs |-> errs + r.errs, panic |-> TRUE]
            ELSE ParseJSONParameters(Tail(args), r.req, errs + r.errs)

Object1 == MapOf([k \in {<<"b">>} |-> Str("master")])
Object2 == MapOf([k \in {<<"b">>} |-> SeqOf(<<Str("master")>>)])
Text1 == Str(Marshal(Object1))
Text2 == Str(Marshal(Object2))

JSONValues ==
    {Str("master"), Str("null"), Text1, Text2,
     MapOf([k \in {<<"b">>} |-> Text1]), SeqOf(<<Text1>>)}

JSONRequests ==
    [ Headers : {MapOf(<<>>), MapOf([k \in {KeySig} |-> Text1])},
      Query : {MapOf(<<>>), MapOf([k \in {KeyA} |-> Text2])},
      Payload : {MapOf(m) : m \in UNION {[K -> JSONValues] : K \in SUBSET Keys}},
      Body : {Body}, Method : {"POST"}, RemoteAddr : {"127.0.0.1:8080"},
      AllowSignatureErrors : {FALSE} ]

JSONArgs ==
    {Arg("payload", n) : n \in {KeyA, KeyAB, <<"a", "0">>, <<"b">>}}
      \cup {Arg("header", <<"x-sig">>), Arg("query", KeyA), Arg("url", KeyA),
            Arg("string", <<Text1.v>>)}

MaxEntries == 2
JSONStringParameters == UNION {[1..n -> JSONArgs] : n \in 0..MaxEntries}

InitJSON ==
    /\ params \in JSONRequests
    /\ pin \in JSONStringParameters
    /\ pout = <<>>
    /\ ppc = "ready"
    /\ RulesIdle /\ RegistryIdle /\ ReaderIdle /\ SignalsIdle /\ PipelineIdle /\ ExecIdle

CallParseJSONParameters ==
    /\ ppc = "ready"
    /\ ppc' = "done"
    /\ pout' = ParseJSONParameters(pin, params, 0)
    /\ UNCHANGED <<params, pin>>

NextJSON == CallParseJSONParameters /\ UNCHANGED notParams

SpecJSON == InitJSON /\ [][NextJSON]_vars

\* The text of a JSON object.
IsObjectText(text) == \E o \in JSONObjects : Marshal(o) = text
ObjectOf(text) == CHOOSE o \in JSONObjects : Marshal(o) = text

\* The path at which an entry's value stands in its source.
KeyOf(arg) == IF arg.Source = "header" THEN CanonicalMIMEHeaderKey(arg.Name) ELSE arg.Name

\* The entry names header, query or payload and its value in the request is
\* a string holding a JSON object.
HoldsObjectText(arg, req) ==
    /\ arg.Source \in SubstSources
    /\ LET g == GetParameter(KeyOf(arg), req[SourceField(arg.Source)])
       IN g.err = ErrNil /\ g.val.t = "str" /\ IsObjectText(g.val.v)

\* Resolving the entry in the request yields the mapping, and the fields of
\* the mapping are reached by the entry's path followed by their keys
\* (unless the source has that dotted path as a key of its own, which the
\* walk tries first).
ResolvesTo(arg, req, object) ==
    LET src == req[SourceField(arg.Source)]
    IN /\ GetParameter(KeyOf(arg), src) = Found(object)
       /\ \A k \in DOMAIN object.m :
             (KeyOf(arg) \o k) \notin DOMAIN src.m =>
                GetParameter(KeyOf(arg) \o k, src) = Found(object.m[k])

\* C29: after ParseJSONParameters has processed an entry with source
\* header, query or payload whose value is a JSON object in string form,
\* resolving the same source and path yields the decoded mapping, for
\* top-level names and for dotted or array-indexed paths alike, and the
\* call returns normally.
C29_DecodedMappingIsResolved ==
    (ppc = "done" /\ Len(pin) = 1 /\ HoldsObjectText(pin[1], params)) =>
        LET text == GetParameter(KeyOf(pin[1]), params[SourceField(pin[1].Source)]).val.v
        IN /\ ~pout.panic
           /\ pout.errs = 0
           /\ ResolvesTo(pin[1], pout.req, ObjectOf(text))

\* The value at the path replaced, along the walk that resolves the path.
RECURSIVE Subst(_, _, _)
Subst(s, p, value) ==
    IF p.t = "map"
    THEN IF s \in DOMAIN p.m THEN MapOf([p.m EXCEPT ![s] = value])
         ELSE MapOf([p.m EXCEPT ![<<Head(s)>>] = Subst(Tail(s), @, value)])
    ELSE SeqOf([p.s EXCEPT ![IndexOf(Head(s))] =
                    IF Len(s) = 1 THEN value ELSE Subst(Tail(s), @, value)])

\* An entry fails when its value cannot be resolved, is not a JSON object,
\* or its source is not header, query or payload.
EntryFails(arg, req) ==
    LET got == ArgumentGetIn(arg, req)
    IN \/ got.err # ErrNil
       \/ ~IsObjectText(got.val)
       \/ arg.Source \notin SubstSources

\* The entries processed as described: a failing entry adds one error and
\* leaves the request as it is, every other entry is substituted.
RECURSIVE Processed(_, _, _)
Processed(args, req, errs) ==
    IF args = <<>> THEN [req |-> req, errs |-> errs, panic |-> FALSE]
    ELSE LET arg == Head(args)
             f == SourceField(arg.Source)
         IN IF EntryFails(arg, req) THEN Processed(Tail(args), req, errs + 1)
            ELSE Processed(Tail(args),
                    [req EXCEPT ![f] = Subst(KeyOf(arg), @, ObjectOf(ArgumentGetIn(arg, req).val))],
                    errs)

\* C30: ParseJSONParameters processes every entry: an entry that fails
\* (value not resolved, not a JSON object, or source not header, query or
\* payload) adds one error to the error returned and leaves the request
\* unchanged for that entry, and every entry that succeeds is substituted
\* whatever the entries before or after it do.
C30_EveryEntryProcessed ==
    ppc = "done" => pout = Processed(pin, params, 0)

-----------------------------------------------------------------------------
(***************************************************************************)
(* SpecSignature: the payload-hmac predicates on header values written as   *)
(* lists of signatures.  A value is the concatenation of at most MaxTokens  *)
(* tokens: the prefix of the predicate's digest, another prefix, a comma,   *)
(* the digest of the body under the secret, and another digest.             *)
(***************************************************************************)
MaxTokens == 5

\* The prefix CheckPayloadSignature, -256 and -512 hand to ExtractSignatures.
SignaturePrefix(type) ==
    CASE type \in {MatchHashSHA1, MatchHMACSHA1} -> "sha1="
      [] type \in {MatchHashSHA256, MatchHMACSHA256} -> "sha256="
      [] OTHER -> "sha512="

\* hex(mac.Sum(nil)) for the hmac.New of each of the three.
ActualMAC(type, secret, body) ==
    CASE type \in {MatchHashSHA1, MatchHMACSHA1} -> HMAC(secret, body)
      [] type \in {MatchHashSHA256, MatchHMACSHA256} -> HMAC256(secret, body)
      [] OTHER -> HMAC512(secret, body)

OtherPrefix == "md5="
OtherDigest == "0badc0de"
Comma == ","

SignatureTokens(type, secret, body) ==
    {SignaturePrefix(type), OtherPrefix, Comma, ActualMAC(type, secret, body), OtherDigest}

TokenLists(tokens) == UNION { [1..n -> tokens] : n \in 0..MaxTokens }

\* The string a list of tokens or of strings spells.
RECURSIVE Concat(_)
Concat(t) == IF t = <<>> THEN "" ELSE Head(t) \o Concat(Tail(t))

SigHeader == Arg("header", KeySig)

SignatureRules ==
    {Match(type, secret, "", SigHeader) :
        type \in {MatchHMACSHA1, MatchHMACSHA256, MatchHMACSHA512},
        secret \in {Secret1, ""}}

SignatureBodies == {Body, ""}

SignatureRequest(headers, body) ==
    [ Headers |-> MapOf(headers), Query |-> MapOf(<<>>), Payload |-> MapOf(<<>>),
      Body |-> body, Method |-> "POST", RemoteAddr |-> "127.0.0.1:8080",
      AllowSignatureErrors |-> FALSE ]

InitSignature ==
    /\ \E m \in SignatureRules, body \in SignatureBodies :
          \/ \E t \in TokenLists(SignatureTokens(m.Type, Secret1, body)) :
                /\ pin = [rule |-> m, tokens |-> t]
                /\ params = SignatureRequest([k \in {KeySig} |-> Str(Concat(t))], body)
          \/ /\ pin = [rule |-> m, tokens |-> <<>>]
             /\ params = SignatureRequest(<<>>, body)
    /\ pout = <<>>
    /\ ppc = "ready"
    /\ RulesIdle /\ RegistryIdle /\ ReaderIdle /\ SignalsIdle /\ PipelineIdle /\ ExecIdle

\* ExtractSignatures on the header's value, with the prefix of the digest.
CallExtractSignatures ==
    /\ ppc = "ready"
    /\ KeySig \in DOMAIN params.Headers.m
    /\ ppc' = "extracted"
    /\ pout' = ExtractSignatures(params.Headers.m[KeySig].v, SignaturePrefix(pin.rule.Type))
    /\ UNCHANGED <<params, pin>>

\* MatchRule.Evaluate
CallSignatureEvaluate ==
    /\ ppc = "ready"
    /\ ppc' = "evaluated"
    /\ pout' = MatchRuleEvaluate(pin.rule, params)
    /\ UNCHANGED <<params, pin>>

NextSignature ==
    \/ CallExtractSignatures /\ UNCHANGED notParams
    \/ CallSignatureEvaluate /\ UNCHANGED notParams

SpecSignature == InitSignature /\ [][NextSignature]_vars

\* The signatures a list of tokens holds, read off the tokens: the parts
\* between the commas, those that begin with the prefix kept without it.
RECURSIVE PartsOf(_, _)
PartsOf(t, part) ==
    IF t = <<>> THEN <<part>>
    ELSE IF Head(t) = Comma THEN <<part>> \o PartsOf(Tail(t), <<>>)
    ELSE PartsOf(Tail(t), Append(part, Head(t)))

Prefixed(part, prefix) == part # <<>> /\ Head(part) = prefix

Stripped(part, prefix) == IF Prefixed(part, prefix) THEN Tail(part) ELSE part

RECURSIVE SignaturesOf(_, _)
SignaturesOf(parts, prefix) ==
    IF parts = <<>> THEN <<>>
    ELSE (IF Prefixed(Head(parts), prefix) THEN <<Concat(Tail(Head(parts)))>> ELSE <<>>)
            \o SignaturesOf(Tail(parts), prefix)

HasComma(t) == \E i \in DOMAIN t : t[i] = Comma

ExpectedSignatures(t, prefix) ==
    IF HasComma(t) THEN SignaturesOf(PartsOf(t, <<>>), prefix)
    ELSE <<Concat(Stripped(t, prefix))>>

HeaderPresent == KeySig \in DOMAIN params.Headers.m

\* C31: a payload-hmac-sha1, -sha256 or -sha512 predicate with a non-empty
\* secret, on a parameter that resolves, passes exactly when one of the
\* signatures in the value is the hex HMAC of the raw body under the secret;
\* otherwise it is false with a SignatureError, whose emptyPayload flag is
\* set exactly when the body is empty.
C31_HMACPasses ==
    (ppc = "evaluated" /\ pin.rule.Secret # "" /\ HeaderPresent) =>
        LET sigs == ExpectedSignatures(pin.tokens, SignaturePrefix(pin.rule.Type))
            mac == ActualMAC(pin.rule.Type, pin.rule.Secret, params.Body)
            matches == \E i \in DOMAIN sigs : sigs[i] = mac
        IN /\ pout.res <=> matches
           /\ pout.res => pout.err = ErrNil
           /\ ~pout.res =>
                pout.err = (IF Len(params.Body) = 0 THEN ErrSignatureEmpty ELSE ErrSignature)

\* C31 witness: of two signatures of an empty body the second one matched.
C31_Witness ==
    /\ ppc = "evaluated" /\ pin.rule.Secret # "" /\ HeaderPresent
    /\ pout.res
    /\ params.Body = ""
    /\ Len(pin.tokens) = 5 /\ pin.tokens[2] = OtherDigest /\ pin.tokens[3] = Comma

\* C32: ExtractSignatures(value, prefix) of a value with a comma is the
\* list, in order, of the comma-separated parts that start with the prefix,
\* each without it; of a value without a comma it is the one-element list of
\* the value with a leading prefix removed.
C32_ExtractSignatures ==
    ppc = "extracted" =>
        pout = ExpectedSignatures(pin.tokens, SignaturePrefix(pin.rule.Type))

\* C32 witness: of three parts, the one without the prefix was dropped.
C32_Witness ==
    /\ ppc = "extracted"
    /\ HasComma(pin.tokens)
    /\ Len(pout) = 1
    /\ Len(PartsOf(pin.tokens, <<>>)) = 3
    /\ pout[1] = OtherDigest

-----------------------------------------------------------------------------
(***************************************************************************)
(* SpecScalr: a scalr-signature predicate on requests signed over body and  *)
(* Date header, read by servers in two zones at times around the header's.  *)
(***************************************************************************)
\* The instant a Date header names, in milliseconds.
InstantOf(wall, zone) == wall * 1000 - ZoneOffset(zone)

\* How long after the named instant the request is read.
Ages == {0 - 600000, 0 - 300001, 0 - 300000, 0, 299999, 300000, 300001, 600000,
         0 - 5 * 3600000, 5 * 3600000}

ScalrDates ==
    {<<>>} \cup {<<MalformedDate>>} \cup {<<DateText(w, z)>> : w \in Walls, z \in Zones}

ScalrSignatures == {"absent", "good", "bad"}

ScalrHeaders(sig, date) ==
    [k \in (IF sig = "absent" THEN {} ELSE {KeySignature})
              \cup (IF date = <<>> THEN {} ELSE {KeyDate}) |->
        IF k = KeyDate THEN Str(date[1])
        ELSE IF sig = "bad" THEN Str(OtherDigest)
        ELSE Str(HMAC(Secret1, Body \o (IF date = <<>> THEN "" ELSE date[1])))]

ScalrRule(secret) == Match(ScalrSignature, secret, "", Arg("", <<>>))

InitScalr ==
    /\ \E sig \in ScalrSignatures, date \in ScalrDates, age \in Ages,
          local \in Locations, w \in Walls, z \in Zones :
          /\ date \in {<<>>, <<MalformedDate>>, <<DateText(w, z)>>}
          /\ params = [ Headers |-> MapOf(ScalrHeaders(sig, date)),
                        Query |-> MapOf(<<>>), Payload |-> MapOf(<<>>),
                        Body |-> Body, Method |-> "POST",
                        RemoteAddr |-> "127.0.0.1:8080",
                        AllowSignatureErrors |-> FALSE,
                        Now |-> InstantOf(w, z) + age, Local |-> local ]
    /\ pin \in {ScalrRule(Secret1), ScalrRule("")}
    /\ pout = <<>>
    /\ ppc = "ready"
    /\ RulesIdle /\ RegistryIdle /\ ReaderIdle /\ SignalsIdle /\ PipelineIdle /\ ExecIdle

\* MatchRule.Evaluate on the scalr-signature predicate
CallScalrEvaluate ==
    /\ ppc = "ready"
    /\ ppc' = "done"
    /\ pout' = MatchRuleEvaluate(pin, params)
    /\ UNCHANGED <<params, pin>>

NextScalr == CallScalrEvaluate /\ UNCHANGED notParams

SpecScalr == InitScalr /\ [][NextScalr]_vars

\* The request carries a Date header that reads as a date and an
\* X-Signature that is the HMAC-SHA1 of body and Date under the rule's key.
SignedAndDated ==
    /\ pin.Secret # ""
    /\ KeySignature \in DOMAIN params.Headers.m
    /\ KeyDate \in DOMAIN params.Headers.m
    /\ params.Headers.m[KeyDate].v # MalformedDate
    /\ params.Headers.m[KeySignature].v
          = HMAC(pin.Secret, params.Body \o params.Headers.m[KeyDate].v)

\* The age of the request: the time between the instant its Date header
\* names and now.
DateAge ==
    LET d == CHOOSE d \in Walls \X Zones : DateText(d[1], d[2]) = params.Headers.m[KeyDate].v
    IN Abs(params.Now - InstantOf(d[1], d[2]))

\* C33: a scalr-signature predicate whose X-Signature is the HMAC-SHA1 of
\* the body followed by the Date header passes exactly when the current time
\* and the Date header are at most 300 seconds apart, and otherwise is false
\* with the SignatureError "outdated".
C33_ScalrDateWindow ==
    (ppc = "done" /\ SignedAndDated) =>
        /\ pout.res <=> DateAge <= MaxDelta
        /\ DateAge > MaxDelta => (~pout.res /\ pout.err = ErrOutdated)

-----------------------------------------------------------------------------
(***************************************************************************)
(* SpecWhitelist: an ip-whitelist predicate with a range of up to MaxRanges *)
(* entries, on requests from several remote addresses.                      *)
(***************************************************************************)
MaxRanges == 2

\* An entry of a range: an address, with a mask length or without (0); or
\* a word that is no address.
RangeEntries ==
    {[ip |-> <<a>>, ones |-> n] :
        a \in {IPv4(10, 0, 0, 0), IPv4(10, 0, 0, 1), IPv6Loopback}, n \in {0, 8, 31, 33}}
      \cup {[ip |-> <<>>, ones |-> 0]}

EntryText(e) ==
    IF e.ip = <<>> THEN "localhost"
    ELSE IPText(e.ip[1]) \o (IF e.ones = 0 THEN "" ELSE "/" \o ToString(e.ones))

RECURSIVE RangeText(_)
RangeText(entries) ==
    IF entries = <<>> THEN ""
    ELSE EntryText(Head(entries)) \o (IF Len(entries) > 1 THEN " " ELSE "")
            \o RangeText(Tail(entries))

\* The remote addresses: net/http writes "IP:port" and "[IP]:port".
Remotes ==
    {[ip |-> a, text |-> IF Len(a) = 4 THEN IPText(a) \o ":8080"
                         ELSE "[" \o IPText(a) \o "]:8080"] :
        a \in {IPv4(10, 0, 0, 1), IPv4(10, 0, 0, 2), IPv4(192, 168, 1, 1), IPv6Loopback}}

WhitelistRule(ipRange) ==
    [Type |-> IPWhitelist, Secret |-> "", Value |-> "", Parameter |-> Arg("", <<>>),
     IPRange |-> ipRange]

InitWhitelist ==
    /\ \E remote \in Remotes,
          entries \in UNION {[1..n -> RangeEntries] : n \in 0..MaxRanges} :
          /\ params = [ Headers |-> MapOf(<<>>), Query |-> MapOf(<<>>),
                        Payload |-> MapOf(<<>>), Body |-> Body, Method |-> "POST",
                        RemoteAddr |-> remote.text, AllowSignatureErrors |-> FALSE,
                        remote |-> remote.ip, entries |-> entries ]
          /\ pin = WhitelistRule(RangeText(entries))
    /\ pout = <<>>
    /\ ppc = "ready"
    /\ RulesIdle /\ RegistryIdle /\ ReaderIdle /\ SignalsIdle /\ PipelineIdle /\ ExecIdle

\* MatchRule.Evaluate on the ip-whitelist predicate
CallWhitelistEvaluate ==
    /\ ppc = "ready"
    /\ ppc' = "done"
    /\ pout' = MatchRuleEvaluate(pin, params)
    /\ UNCHANGED <<params, pin>>

NextWhitelist == CallWhitelistEvaluate /\ UNCHANGED notParams

SpecWhitelist == InitWhitelist /\ [][NextWhitelist]_vars

\* The address lies in the entry: an entry without a mask length is the
\* address with a mask of 32 bits.
SameBits(a, b, n) ==
    \A bit \in 1..n :
        LET k == ((bit - 1) \div 8) + 1
            shift == 2 ^ (7 - ((bit - 1) % 8))
        IN (a[k] \div shift) % 2 = (b[k] \div shift) % 2

LiesIn(ip, e) ==
    LET n == IF e.ones = 0 THEN 32 ELSE e.ones
    IN /\ e.ip # <<>>
       /\ Len(e.ip[1]) = Len(ip)
       /\ n <= 8 * Len(ip)
       /\ SameBits(ip, e.ip[1], n)

\* C34: an ip-whitelist predicate returns true whenever the request's remote
\* IP lies in at least one of the whitespace-separated entries of ipRange.
C34_WhitelistedIsTrue ==
    (ppc = "done" /\ \E i \in DOMAIN params.entries : LiesIn(params.remote, params.entries[i]))
        => pout.res

-----------------------------------------------------------------------------
(***************************************************************************)
(* SpecArguments: the argument vector of the command, for hooks that pass   *)
(* up to MaxArguments request values to it.                                 *)
(***************************************************************************)
MaxArguments == 2

\* Hook.ExtractCommandArguments: the vector, the number of errors
\* accumulated, and whether resolving an entry panicked.
RECURSIVE ExtractCommandArgumentsLoop(_, _, _, _)
ExtractCommandArgumentsLoop(pass, r, args, errs) ==
    IF pass = <<>> THEN [args |-> args, errs |-> errs, panic |-> FALSE]
    ELSE LET appended(got) ==
                 IF got.err = ErrPanic THEN [args |-> args, errs |-> errs, panic |-> TRUE]
                 ELSE IF got.err # ErrNil
                 THEN ExtractCommandArgumentsLoop(Tail(pass), r, Append(args, ""), errs + 1)
                 ELSE ExtractCommandArgumentsLoop(Tail(pass), r, Append(args, got.val), errs)
         IN appended(ArgumentGetIn(Head(pass), r))

ExtractCommandArguments(h, r) ==
    ExtractCommandArgumentsLoop(h.PassArgumentsToCommand, r, <<h.ExecuteCommand>>, 0)

\* The entries of pass-arguments-to-command tried.
PassedArguments ==
    {Arg("payload", KeyA), Arg("payload", <<"b">>), Arg("payload", <<"commits", "0">>),
     Arg("payload", <<"commits", "1">>), Arg("payload", <<"commits", MaxUint64>>),
     Arg("header", <<"x-sig">>), Arg("string", <<"deploy">>), Arg("request", <<"uri">>)}

ArgumentRequests ==
    [ Headers : {MapOf(<<>>)}, Query : {MapOf(<<>>)},
      Payload : {MapOf(<<>>),
                 MapOf([k \in {KeyA, <<"commits">>} |->
                          IF k = KeyA THEN Str("master") ELSE SeqOf(<<Str("c0ffee")>>)])},
      Body : {Body}, Method : {"POST"}, RemoteAddr : {"127.0.0.1:8080"},
      AllowSignatureErrors : {FALSE} ]

InitArguments ==
    /\ params \in ArgumentRequests
    /\ \E pass \in UNION {[1..n -> PassedArguments] : n \in 0..MaxArguments} :
          pin = [NewHook("x", "deploy.sh") EXCEPT !.PassArgumentsToCommand = pass]
    /\ pout = <<>>
    /\ ppc = "ready"
    /\ RulesIdle /\ RegistryIdle /\ ReaderIdle /\ SignalsIdle /\ PipelineIdle /\ ExecIdle

\* Executor.execHookCommand, from the construction of the command to
\* cmd.Run: errors of the extraction are logged; a panic ends the handler.
ExecHookCommandArgs ==
    /\ ppc = "ready"
    /\ ppc' = "done"
    /\ LET x == ExtractCommandArguments(pin, params)
       IN pout' = [args |-> x.args, errs |-> x.errs, panic |-> x.panic, runs |-> ~x.panic]
    /\ UNCHANGED <<params, pin>>

NextArguments == ExecHookCommandArgs /\ UNCHANGED notParams

SpecArguments == InitArguments /\ [][NextArguments]_vars

Resolves(arg) == ArgumentGetIn(arg, params).err = ErrNil

\* C35: the argument vector has 1 + len(passArgumentsToCommand) entries: the
\* command, then at position i+1 the value of the i-th entry or the empty
\* string when it does not resolve; the errors are accumulated and the
\* command runs all the same.
C35_ArgumentVector ==
    ppc = "done" =>
        LET pass == pin.PassArgumentsToCommand
        IN /\ pout.runs
           /\ Len(pout.args) = 1 + Len(pass)
           /\ pout.args[1] = pin.ExecuteCommand
           /\ \A i \in DOMAIN pass :
                 pout.args[i + 1] =
                    (IF Resolves(pass[i]) THEN ArgumentGetIn(pass[i], params).val ELSE "")
           /\ pout.errs = Cardinality({i \in DOMAIN pass : ~Resolves(pass[i])})

-----------------------------------------------------------------------------
(***************************************************************************)
(* SpecSnapshot: a daemon serving one hook with up to MaxFiles entries of   *)
(* pass-file-to-command, and requests for it.  The handler works on the     *)
(* pointer Manager.Get returned: what it writes through the pointer is      *)
(* written to the hook held in hooksInFiles.                                *)
(***************************************************************************)
MaxFiles == 2

EnvNamespace == "HOOK_"

\* strings.ToUpper on a string
RECURSIVE ToUpperString(_)
ToUpperString(s) ==
    IF Len(s) = 0 THEN s
    ELSE ToUpperChar(SubSeq(s, 1, 1)) \o ToUpperString(SubSeq(s, 2, Len(s)))

\* base64.StdEncoding.DecodeString on the values sent
Base64Decode(value) ==
    IF value = "c3RlcA==" THEN [dec |-> "step", err |-> ErrNil]
    ELSE [dec |-> "", err |-> ErrOther]

FileArg(source, name, envName, base64) ==
    [Source |-> source, Name |-> name, EnvName |-> envName, Base64Decode |-> base64]

\* Hook.ExtractCommandArgumentsForFile: the FileParameters, the number of
\* errors, and the hook after the call.
RECURSIVE ExtractCommandArgumentsForFileLoop(_, _, _, _, _)
ExtractCommandArgumentsForFileLoop(h, r, i, args, errs) ==
    IF i > Len(h.PassFileToCommand)
    THEN [hook |-> h, args |-> args, errs |-> errs, panic |-> FALSE]
    ELSE LET extracted(got) ==
                 IF got.err = ErrPanic
                 THEN [hook |-> h, args |-> args, errs |-> errs, panic |-> TRUE]
                 ELSE IF got.err # ErrNil
                 THEN ExtractCommandArgumentsForFileLoop(h, r, i + 1, args, errs + 1)
                 ELSE LET named ==
                              IF h.PassFileToCommand[i].EnvName = ""
                              THEN [h EXCEPT !.PassFileToCommand[i].EnvName =
                                        EnvNamespace \o ToUpperString(JoinDots(h.PassFileToCommand[i].Name))]
                              ELSE h
                          fileContent ==
                              IF h.PassFileToCommand[i].Base64Decode
                              THEN Base64Decode(got.val).dec
                              ELSE got.val
                      IN ExtractCommandArgumentsForFileLoop(named, r, i + 1,
                            Append(args, [EnvName |-> named.PassFileToCommand[i].EnvName,
                                          Data |-> fileContent]),
                            errs)
         IN extracted(ArgumentGetIn(h.PassFileToCommand[i], r))

ExtractCommandArgumentsForFile(h, r) ==
    ExtractCommandArgumentsForFileLoop(h, r, 1, <<>>, 0)

KeyStep == <<"step">>

FileArguments ==
    {FileArg("payload", KeyStep, env, b64) : env \in {"", "STEP_FILE"}, b64 \in BOOLEAN}
      \cup {FileArg("payload", <<"post">>, "", FALSE)}

SnapshotHooks ==
    {[NewHook("x", "deploy.sh") EXCEPT !.PassFileToCommand = pass] :
        pass \in UNION {[1..n -> FileArguments] : n \in 0..MaxFiles}}

SnapshotRequests ==
    [ Headers : {MapOf(<<>>)}, Query : {MapOf(<<>>)},
      Payload : {MapOf(<<>>)} \cup {MapOf([k \in {KeyStep} |-> Str(v)]) : v \in {"c3RlcA==", "step"}},
      Body : {Body}, Method : {"POST"}, RemoteAddr : {"127.0.0.1:8080"},
      AllowSignatureErrors : {FALSE} ]

InitSnapshot ==
    /\ phase = "init"
    /\ files = <<"a.json">>
    /\ hooksInFiles = <<>>
    /\ \E h \in SnapshotHooks :
          disk = [f \in Paths |-> IF f = "a.json" THEN FileOk(<<h>>) ELSE FileMissing]
    /\ watched = {}
    /\ last = NoLast
    /\ lastGood = <<>>
    /\ params \in SnapshotRequests
    /\ pin = "x"
    /\ pout = <<>>
    /\ ppc = "ready"
    /\ RulesIdle /\ ReaderIdle /\ SignalsIdle /\ PipelineIdle /\ ExecIdle

\* A request for the hook, from Manager.Get to prepareFileArguments: the
\* hook is the one in hooksInFiles, not a copy of it.
ServeWithFiles ==
    /\ phase \in {"loaded", "running"}
    /\ ppc = "ready"
    /\ HooksMatch(hooksInFiles["a.json"], pin) # <<>>
    /\ LET x == ExtractCommandArgumentsForFile(HooksMatch(hooksInFiles["a.json"], pin)[1], params)
       IN /\ hooksInFiles' = [hooksInFiles EXCEPT !["a.json"] = <<x.hook>>]
          /\ pout' = [args |-> x.args, errs |-> x.errs]
    /\ ppc' = "done"
    /\ UNCHANGED <<phase, files, disk, watched, last, lastGood, params, pin>>
    /\ UNCHANGED <<ruleVars, readerVars, signalVars, pipelineVars, execVars>>

NextSnapshot ==
    \/ Load /\ UNCHANGED notRegistry
    \/ ServeWithFiles

SpecSnapshot == InitSnapshot /\ [][NextSnapshot]_vars

\* C36: handling a request never modifies the hook obtained from the
\* registry: every field of the hook, its argument descriptors included,
\* is after the request what it was before it.
C36_HookIsNotModified ==
    [][(ppc = "ready" /\ ppc' = "done") => hooksInFiles' = hooksInFiles]_vars

-----------------------------------------------------------------------------
\* More claims about the handler.

\* The request passed the method gate, did not parse, and the handler wrote
\* the 500 response for that.
ParseFailureAnswered ==
    /\ response.hook # <<>>
    /\ response.kind # "method-not-allowed"
    /\ ParseRequest(response.req, response.content).err
    /\ Len(response.events) >= 2
    /\ SubSeq(response.events, 1, 2) = WriteResponse(StatusInternalServerError, MsgParse)

\* C37: when parsing the request fails and the handler writes the 500
\* response for it, the trigger rule is not evaluated afterwards, the command
\* is not executed, and no second status or body is written.
C37_ParseFailureEndsRequest ==
    ParseFailureAnswered =>
        /\ ~response.evaluated
        /\ response.executes = 0
        /\ At(response.events, "start") = {}
        /\ response.events = WriteResponse(StatusInternalServerError, MsgParse)

\* The trigger rule of the matched hook was evaluated and ended with an
\* error at the top of the tree.
RuleEndedWithError ==
    /\ response.hook # <<>>
    /\ response.evaluated
    /\ Served.TriggerRule # NilRule
    /\ RuleVerdict.err # ErrNil

\* C38: whenever evaluating the trigger rule yields an error at the top of
\* the tree, of whatever kind, the hook is not triggered and its command is
\* not executed.
C38_RuleErrorNeverTriggers ==
    RuleEndedWithError =>
        /\ response.kind \notin ModeKinds
        /\ response.executes = 0
        /\ runs = 0

-----------------------------------------------------------------------------
\* More claims about the executor.

\* C39: the timeout callback never runs against a command that has not been
\* started: whenever it is about to send SIGTERM the process exists, and so
\* it does whenever SIGKILL is sent; the callback never fails on the handle.
C39_CallbackFindsProcess ==
    /\ cbPc = "sigterm" => proc.state # "none"
    /\ TimerDue(killTimer) => proc.state # "none"
    /\ ~Crashed

-----------------------------------------------------------------------------
\* More claims about the signal goroutine.

ExitSignalPending == signals # <<>> /\ Head(signals) \in ExitSignals

\* C40: after any number of reload signals a later SIGINT or SIGTERM is
\* still handled: the signal goroutine always comes back from Notify, and an
\* exit signal waiting in the signal channel is eventually received and ends
\* the process.
C40_ExitSignalIsHandled ==
    /\ (sigLoop = "notify") ~> (sigLoop # "notify")
    /\ ExitSignalPending ~> (sigLoop = "exited")

=============================================================================
